---- MODULE Spec2Model ----
(***************************************************************************)
(* Verification model of the Yiyin-Bot plugins.                            *)
(*                                                                         *)
(*   quotes/draw.py      text measurement and greedy wrapping              *)
(*   symmetric/__init__  per-frame mirror transform, animated re-encoding  *)
(*                       and the /对称 command handler                      *)
(*                                                                         *)
(* Widths are real numbers in the source (font.getlength returns a float). *)
(* They are modelled in half-pixel units: Px(n) is n whole pixels, so the  *)
(* test "w < 1" of _char_width reads "w < Px(1)".                          *)
(***************************************************************************)
EXTENDS Integers, Sequences, FiniteSets, TLC

VARIABLES
    \* ---- quotes/draw.py : one call of _wrap_text
    wpc,        \* "call" before the call, "done" after it returned
    text,       \* argument text: a sequence of codepoints
    font,       \* argument font: codepoint -> advance width (half pixels)
    max_width,  \* argument max_width (whole pixels)
    emoji_w,    \* argument emoji_w (half pixels)
    wrapped,    \* the returned list of lines
    \* ---- symmetric : _apply_symmetric applied once and then to its own result
    spc,        \* "call", "once", "twice"
    img,        \* argument img
    direction,  \* argument direction
    result,     \* _apply_symmetric(img, direction)
    result2,    \* _apply_symmetric(result, direction)
    \* ---- symmetric : one call of _process_animated
    apc,        \* "iterate", "check", "quantize", "save", "done", "error"
    src_frames, \* the frames ImageSequence.Iterator yields: [im, duration]
    adir,       \* argument direction
    frames,     \* local list frames
    durations,  \* local list durations
    gif_frames, \* local list gif_frames
    loop_info,  \* img.info restricted to the key "loop": {} or {n}
    saved,      \* what the GIF writer is handed: [frames, duration, loop, disposal]
    \* ---- symmetric : one run of handle_symmetric
    hpc,        \* "parse", "download", "process", "finished"
    cmd_text,   \* the plain text of the command argument (a sequence of words)
    hdir,       \* local direction
    has_image,  \* the command or the replied message carries an image url
    net_ok,     \* the download succeeds
    content,    \* what the downloaded bytes are
    temp_file,  \* the temporary file exists
    opens,      \* number of Image.open calls made
    replies,    \* the messages sent to the user, in order
    \* ---- quotes/draw.py : one call of generate_chat_screenshot
    shpc,         \* "layout", "avatar", "draw", "returned", "raised"
    avatar_bytes, \* argument avatar_bytes: what kind of bytes they are
    message,      \* argument text: a sequence of codepoints
    text_font,    \* local text_font: [adv, metrics]
    nick_h,       \* local nick_h
    shot_lines,   \* local wrapped
    bub_w,        \* local bub_w
    bub_h,        \* local bub_h
    total_h,      \* local total_h
    ava,          \* local ava: "none", "opened", "placeholder"
    png,          \* the returned image, <<>> before the return
    \* ---- quotes/draw.py : concurrent calls resolving the font path
    font_exists,       \* the font files present, as indices of _FONT_SEARCH_PATHS
    _font_path_cache,  \* the module global
    cache_writer,      \* the call whose store the global holds, 0 for none
    fpc,               \* per call: "test", "cached", "scan", "store", "done"
    found,             \* per call: local p of _resolve_font_path
    got,               \* per call: the paths its _get_font calls resolved
    \* ---- quotes, toggle : two command handlers running on one event loop
    members,       \* members.json of the group: a list of names
    aliases,       \* aliases.json of the group: alias -> primary name
    index,         \* index.json of the group: a set of [id, member, file]
    files,         \* the image files of the group: <<member, file name>>
    config_file,   \* toggle config.json: [exists, disabled] for the group
    _config_cache, \* toggle's module global: [loaded, disabled]
    cmds,          \* per handler: the command it handles
    hs,            \* per handler: [pc, canonical, auto_registered, saved_ids, i, reply]
    \* ---- tarot : the invocations of handle_tarot_ten in one process
    _ten_draw_usage, \* the module global: user id -> date of the last ten-draw
    today,           \* what date.today() returns
    invs,            \* the invocations so far, in the order they started:
                     \* [user, day, reply, cards, world, pc]
    \* ---- toggle : the switch commands and the preprocessor
    toggle_file,     \* config.json: [exists, disabled], disabled a set of <<group, key>>
    toggle_cache,    \* the module global _config_cache: [loaded, disabled]
    toggle_last,     \* <<group, key>> -> the last successful command: "none", "disabled", "enabled"
    toggle_seen,     \* the last run of toggle_check: [kind, plugin, group, ignored], or <<>>
    \* ---- mohe : the scheduler of the automatic trigger
    now,             \* datetime.now(): [day, hour]
    up,              \* the process is running
    jobs,            \* job mohe_auto_i, i in 0..1: its run time <<day, hour>>, or <<>>
    auto_runs,       \* day -> the number of _auto_mohe runs on it
    startups,        \* the number of process startups so far
    \* ---- wolfram : one invocation of the command
    wolfram_in,      \* what the invocation meets: [appid, query, response, login, forward]
    wolfram_pc,      \* "start", "request", "login", "forward", "done"
    wolfram_sent,    \* the messages sent to the user, in order
    \* ---- roleplay : the messages of one group
    _group_history,  \* the deque of the group: records [role, content]
    _last_reply_time,\* the time stamp of the last reply, in seconds
    clock,           \* time.time(), in ticks of TickSeconds seconds
    handling,        \* the invocations of handle_group_msg, by arrival:
                     \* [at_me, content, messages, pc]
    said,            \* the replies of the bot, in order: [time, at_me]
    \* ---- emoji_reaction : one message with the command name
    emoji_in,        \* the message: [text, reply, api]
    emoji_pc,        \* "random", "stick", "end": the matcher to run next
    tried,           \* handle_random: the number of reactions tried so far
    success,         \* handle_random: the number of reactions set so far
    emoji_sent       \* the replies sent, in order: [by, msg]

wrapVars == <<wpc, text, font, max_width, emoji_w, wrapped>>
symVars  == <<spc, img, direction, result, result2>>
animVars == <<apc, src_frames, adir, loop_info, frames, durations, gif_frames, saved>>
cmdVars  == <<hpc, cmd_text, hdir, has_image, net_ok, content, temp_file, opens, replies>>
shotVars == <<shpc, avatar_bytes, message, text_font, nick_h, shot_lines, bub_w, bub_h,
              total_h, ava, png>>
fontVars == <<font_exists, _font_path_cache, cache_writer, fpc, found, got>>
firstVars == <<wrapVars, symVars, animVars, cmdVars>>
storeVars == <<members, aliases, index, files, config_file, _config_cache, cmds, hs>>
tenVars  == <<_ten_draw_usage, today, invs>>
toggleVars == <<toggle_file, toggle_cache, toggle_last, toggle_seen>>
moheVars == <<now, up, jobs, auto_runs, startups>>
wolfVars == <<wolfram_in, wolfram_pc, wolfram_sent>>
roleVars == <<_group_history, _last_reply_time, clock, handling, said>>
emojiVars == <<emoji_in, emoji_pc, tried, success, emoji_sent>>
midVars  == <<toggleVars, moheVars>>
lastVars == <<wolfVars, roleVars, emojiVars>>
laterVars == <<midVars, lastVars>>
earlyVars == <<firstVars, shotVars, fontVars, storeVars, tenVars>>
restVars == <<shotVars, fontVars, storeVars, tenVars, laterVars>>
notShot  == <<firstVars, fontVars, storeVars, tenVars, laterVars>>
notFont  == <<firstVars, shotVars, storeVars, tenVars, laterVars>>
notStore == <<firstVars, shotVars, fontVars, tenVars, laterVars>>
notTen   == <<firstVars, shotVars, fontVars, storeVars, laterVars>>
notToggle == <<earlyVars, moheVars, lastVars>>
notMohe  == <<earlyVars, toggleVars, lastVars>>
notWolf  == <<earlyVars, midVars, roleVars, emojiVars>>
notRole  == <<earlyVars, midVars, wolfVars, emojiVars>>
notEmoji == <<earlyVars, midVars, wolfVars, roleVars>>
vars     == <<firstVars, restVars>>

(***************************************************************************)
(* Bounds of the model.                                                    *)
(***************************************************************************)
MaxLen    == 4      \* longest text
MaxWidth  == 3      \* largest max_width, in pixels
MaxDim    == 4      \* largest image width or height
MaxArea   == 6      \* largest number of pixels of an image
MaxFrames == 3      \* most frames of an animation
MaxMsgLen == 2      \* longest message of a screenshot
MaxCalls  == 2      \* most concurrent calls of generate_chat_screenshot
MaxImages == 2      \* most images of one upload command
MaxInvocations == 4 \* most ten-draw invocations
MaxDay    == 2      \* last calendar day
MaxStartups == 2    \* most startups of the process
MaxCommands == 3    \* most commands sent to a group one after the other
MaxMessages == 3    \* most messages of a group seen by the roleplay handler
MaxTicks  == 6      \* last reading of the clock
MaxArgLen == 3      \* longest argument of the emoji command

(***************************************************************************)
(* quotes/draw.py : _char_width, _measure_line, _wrap_text                 *)
(***************************************************************************)
Px(n) == 2 * n

NL      == 10
_ZWJ    == 8205       \* 0x200D
_VS15   == 65038      \* 0xFE0E
_VS16   == 65039      \* 0xFE0F
_COMBINING_CODEPOINTS == {_ZWJ, _VS15, _VS16}

\* The codepoints texts are drawn from: line feed, an ASCII letter, a Latin-1
\* codepoint without glyph (soft hyphen), the joiner, a tag codepoint
\* (0xE0020), a CJK ideograph and an emoji.
Chars == {NL, 97, 173, _ZWJ, 917536, 20013, 128512}

\* font.getlength(ch) of two fonts, in half pixels.  The first has no glyph
\* for the emoji and the control codepoints; the second gives every glyph an
\* advance, fractional (half a pixel) for the emoji and the soft hyphen.
FontA == [c \in Chars |->
            CASE c = 97    -> Px(1)
              [] c = 20013 -> Px(2)
              [] OTHER     -> 0]
FontB == [c \in Chars |->
            CASE c = 97     -> 3
              [] c = 20013  -> Px(3)
              [] c = 173    -> 1
              [] c = 128512 -> 1
              [] OTHER      -> Px(1)]
Fonts == {FontA, FontB}
getlength(f, ch) == f[ch]

\* A plausible slip: the fallback applies to every non-ASCII codepoint (the
\* docstring's wording) instead of every codepoint above 255.
_char_width_NonAscii(ch, f, ew) ==
    IF ch \in _COMBINING_CODEPOINTS \/ (917536 <= ch /\ ch <= 917631)
    THEN 0
    ELSE LET w == getlength(f, ch)
         IN  IF w < Px(1) /\ ch > 127 THEN ew ELSE w

_char_width(ch, f, ew) ==
    IF ch \in _COMBINING_CODEPOINTS \/ (917536 <= ch /\ ch <= 917631)
    THEN 0
    ELSE LET w == getlength(f, ch)
         IN  IF w < Px(1) /\ ch > 255 THEN ew ELSE w

RECURSIVE _measure_line(_, _, _)
_measure_line(t, f, ew) ==
    IF t = <<>> THEN 0
    ELSE _char_width(Head(t), f, ew) + _measure_line(Tail(t), f, ew)

\* text.split("\n"): the pieces between line feeds, empty pieces included.
RECURSIVE SplitFrom(_, _)
SplitFrom(t, cur) ==
    IF t = <<>> THEN <<cur>>
    ELSE IF Head(t) = NL THEN <<cur>> \o SplitFrom(Tail(t), <<>>)
    ELSE SplitFrom(Tail(t), Append(cur, Head(t)))
split(t) == SplitFrom(t, <<>>)

\* A plausible slip: the width is tested before the character is added.
Overflows_Late(current_w, ch_w, mw) == current_w > Px(mw)

\* A plausible slip: a line that is exactly full is broken too.
Overflows_Eq(current_w, ch_w, mw) == current_w + ch_w >= Px(mw)

\* line 85: "if current_w + ch_w > max_width"
Overflows(current_w, ch_w, mw) == current_w + ch_w > Px(mw)

\* The loop "for ch in paragraph" from position i on, with the lines this
\* paragraph has appended so far, buf and current_w; then the trailing
\* "if buf: lines.append(buf)".
RECURSIVE WrapLoop(_, _, _, _, _, _, _, _)
WrapLoop(p, i, ls, buf, current_w, f, mw, ew) ==
    IF i > Len(p)
    THEN IF buf # <<>> THEN Append(ls, buf) ELSE ls
    ELSE LET ch   == p[i]
             ch_w == _char_width(ch, f, ew)
         IN  IF Overflows(current_w, ch_w, mw)
             THEN WrapLoop(p, i + 1,
                           IF buf # <<>> THEN Append(ls, buf) ELSE ls,
                           <<ch>>, ch_w, f, mw, ew)
             ELSE WrapLoop(p, i + 1, ls, Append(buf, ch), current_w + ch_w,
                           f, mw, ew)

\* A plausible slip: an empty paragraph contributes no line.
WrapParagraph_SkipEmpty(p, f, mw, ew) ==
    IF p = <<>> THEN <<>>
    ELSE WrapLoop(p, 1, <<>>, <<>>, 0, f, mw, ew)

\* The lines one paragraph contributes (the body of "for paragraph in ...").
WrapParagraph(p, f, mw, ew) ==
    IF p = <<>> THEN << <<>> >>
    ELSE WrapLoop(p, 1, <<>>, <<>>, 0, f, mw, ew)

RECURSIVE WrapParagraphs(_, _, _, _)
WrapParagraphs(ps, f, mw, ew) ==
    IF ps = <<>> THEN <<>>
    ELSE WrapParagraph(Head(ps), f, mw, ew) \o WrapParagraphs(Tail(ps), f, mw, ew)

\* A plausible slip: empty lines are filtered out and nothing stands in for
\* an empty result.
_wrap_text_DropEmpty(t, f, mw, ew) ==
    SelectSeq(WrapParagraphs(split(t), f, mw, ew), LAMBDA ln : ln # <<>>)

_wrap_text(t, f, mw, ew) ==
    LET lines == WrapParagraphs(split(t), f, mw, ew)
    IN  IF lines # <<>> THEN lines ELSE << <<>> >>

Texts == UNION {[1..n -> Chars] : n \in 0..MaxLen}

WrapIdle ==
    /\ wpc = "idle" /\ text = <<>> /\ font = FontA /\ max_width = 1
    /\ emoji_w = Px(1) /\ wrapped = <<>>

InitWrap ==
    /\ wpc = "call"
    /\ text \in Texts
    /\ font \in Fonts
    /\ max_width \in 1..MaxWidth
    /\ emoji_w \in {Px(1), Px(3)}
    /\ wrapped = <<>>

Wrap ==
    /\ wpc = "call"
    /\ wrapped' = _wrap_text(text, font, max_width, emoji_w)
    /\ wpc' = "done"
    /\ UNCHANGED <<text, font, max_width, emoji_w>>
    /\ UNCHANGED <<symVars, animVars, cmdVars, restVars>>

(***************************************************************************)
(* symmetric/__init__.py : _apply_symmetric                                *)
(*                                                                         *)
(* An image is [w, h, px] with px[<<x, y>>] the pixel of column x, row y   *)
(* (0-based, as in Pillow).  An RGBA pixel is <<colour, alpha>>.  The four *)
(* direction words of the source are written left, right, up and down.     *)
(***************************************************************************)
VALID_DIRECTIONS  == {"left", "right", "up", "down"}
DEFAULT_DIRECTION == "left"

Blank  == <<0, 0>>                       \* what Image.new fills RGBA with
Pixels == {<<1, 255>>, <<2, 129>>, <<1, 128>>}

Coords(w, h) == (0..(w - 1)) \X (0..(h - 1))

\* Pillow: Image.crop, Image.transpose, Image.new, Image.paste, Image.copy
crop(im, l, u, r, b) ==
    [w |-> r - l, h |-> b - u,
     px |-> [c \in Coords(r - l, b - u) |-> im.px[<<l + c[1], u + c[2]>>]]]
FLIP_LEFT_RIGHT(im) ==
    [w |-> im.w, h |-> im.h,
     px |-> [c \in Coords(im.w, im.h) |-> im.px[<<im.w - 1 - c[1], c[2]>>]]]
FLIP_TOP_BOTTOM(im) ==
    [w |-> im.w, h |-> im.h,
     px |-> [c \in Coords(im.w, im.h) |-> im.px[<<c[1], im.h - 1 - c[2]>>]]]
new(w, h) ==
    [w |-> w, h |-> h, px |-> [c \in Coords(w, h) |-> Blank]]
paste(dst, im, x0, y0) ==
    [w |-> dst.w, h |-> dst.h,
     px |-> [c \in Coords(dst.w, dst.h) |->
               IF /\ x0 <= c[1] /\ c[1] < x0 + im.w
                  /\ y0 <= c[2] /\ c[2] < y0 + im.h
               THEN im.px[<<c[1] - x0, c[2] - y0>>]
               ELSE dst.px[c]]]
copy(im) == im

\* A plausible slip: the half rounded up.
Half_Ceil(n) == (n + 1) \div 2

\* "half = w // 2" and "half = h // 2"
Half(n) == n \div 2

\* A plausible slip: the mirror is not flipped (the kept half is pasted twice).
SymLeft_NoFlip(im) ==
    LET half == Half(im.w)
        left == crop(im, 0, 0, half, im.h)
    IN  paste(paste(new(half * 2, im.h), left, 0, 0), left, half, 0)

\* A plausible slip: the branch keeps the right half and lays it out as the
\* left branch does (kept half first, mirror second).
SymLeft_KeepRight(im) ==
    LET half     == Half(im.w)
        right    == crop(im, im.w - half, 0, im.w, im.h)
        mirrored == FLIP_LEFT_RIGHT(right)
    IN  paste(paste(new(half * 2, im.h), right, 0, 0), mirrored, half, 0)

SymLeft(im) ==
    LET half     == Half(im.w)
        left     == crop(im, 0, 0, half, im.h)
        mirrored == FLIP_LEFT_RIGHT(left)
    IN  paste(paste(new(half * 2, im.h), left, 0, 0), mirrored, half, 0)

\* A plausible slip: the right branch lays out kept half first, mirror second.
SymRight_KeptFirst(im) ==
    LET half     == Half(im.w)
        right    == crop(im, im.w - half, 0, im.w, im.h)
        mirrored == FLIP_LEFT_RIGHT(right)
    IN  paste(paste(new(half * 2, im.h), right, 0, 0), mirrored, half, 0)

SymRight(im) ==
    LET half     == Half(im.w)
        right    == crop(im, im.w - half, 0, im.w, im.h)
        mirrored == FLIP_LEFT_RIGHT(right)
    IN  paste(paste(new(half * 2, im.h), mirrored, 0, 0), right, half, 0)

SymUp(im) ==
    LET half     == Half(im.h)
        top      == crop(im, 0, 0, im.w, half)
        mirrored == FLIP_TOP_BOTTOM(top)
    IN  paste(paste(new(im.w, half * 2), top, 0, 0), mirrored, 0, half)

SymDown(im) ==
    LET half     == Half(im.h)
        bottom   == crop(im, 0, im.h - half, im.w, im.h)
        mirrored == FLIP_TOP_BOTTOM(bottom)
    IN  paste(paste(new(im.w, half * 2), mirrored, 0, 0), bottom, 0, half)

\* A plausible slip: an unrecognised direction falls back to the default one.
_apply_symmetric_DefaultLeft(im, d) ==
    CASE d = "right" -> SymRight(im)
      [] d = "up"    -> SymUp(im)
      [] d = "down"  -> SymDown(im)
      [] OTHER       -> SymLeft(im)

_apply_symmetric(im, d) ==
    CASE d = "left"  -> SymLeft(im)
      [] d = "right" -> SymRight(im)
      [] d = "up"    -> SymUp(im)
      [] d = "down"  -> SymDown(im)
      [] OTHER       -> copy(im)

Sizes == {s \in (1..MaxDim) \X (1..MaxDim) : s[1] * s[2] <= MaxArea}
Images == UNION {[w : {s[1]}, h : {s[2]}, px : [Coords(s[1], s[2]) -> Pixels]] : s \in Sizes}
NoImage == [w |-> 0, h |-> 0, px |-> [c \in Coords(0, 0) |-> Blank]]
Directions == VALID_DIRECTIONS \cup {"centre"}

SymIdle ==
    /\ spc = "idle" /\ img = NoImage /\ direction = DEFAULT_DIRECTION
    /\ result = NoImage /\ result2 = NoImage

InitSym ==
    /\ spc = "call"
    /\ img \in Images
    /\ direction \in Directions
    /\ result = NoImage
    /\ result2 = NoImage

\* result = _apply_symmetric(img, direction)
ApplyOnce ==
    /\ spc = "call"
    /\ result' = _apply_symmetric(img, direction)
    /\ spc' = "once"
    /\ UNCHANGED <<img, direction, result2>>
    /\ UNCHANGED <<wrapVars, animVars, cmdVars, restVars>>

\* result2 = _apply_symmetric(result, direction): a second pass over the
\* first pass's output.
ApplyTwice ==
    /\ spc = "once"
    /\ result2' = _apply_symmetric(result, direction)
    /\ spc' = "twice"
    /\ UNCHANGED <<img, direction, result>>
    /\ UNCHANGED <<wrapVars, animVars, cmdVars, restVars>>

(***************************************************************************)
(* symmetric/__init__.py : _process_animated                               *)
(*                                                                         *)
(* A source frame is [im, duration]: the frame's pixels and frame.info     *)
(* restricted to the key "duration", {} when the key is absent and {d}     *)
(* when it is d.                                                           *)
(***************************************************************************)
DefaultDuration == 100
TransparentIndex == 255
AlphaThreshold == 128

\* dict.get(key, default) on an info of at most one value
get(info, default) == IF info = {} THEN default ELSE CHOOSE d \in info : TRUE

\* A plausible slip: a non-positive duration is kept.
FrameDuration_Unclamped(info) == get(info, DefaultDuration)

\* lines 101-103: the duration recorded for a frame
FrameDuration(info) ==
    LET duration == get(info, DefaultDuration)
    IN  IF duration <= 0 THEN DefaultDuration ELSE duration

\* convert("RGB").convert("P", ADAPTIVE, colors=255): every colour of the
\* frame gets one of the indices 0..254 (the frames of the model have far
\* fewer than 255 colours, so the palette is exact).
AdaptiveIndex(f, rgb) ==
    Cardinality({c \in {f.px[q][1] : q \in DOMAIN f.px} : c < rgb})

\* A plausible slip: the threshold itself counts as opaque.
Mask_Strict(a) == IF a < AlphaThreshold THEN 255 ELSE 0

\* Image.eval(alpha, lambda a: 255 if a <= 128 else 0)
Mask(a) == IF a <= AlphaThreshold THEN 255 ELSE 0

\* lines 116-124: an RGBA frame to a P frame with index 255 transparent
ToGifFrame(f) ==
    [w  |-> f.w, h |-> f.h,
     px |-> [q \in DOMAIN f.px |->
               IF Mask(f.px[q][2]) = 255 THEN TransparentIndex
               ELSE AdaptiveIndex(f, f.px[q][1])],
     transparency |-> TransparentIndex]

FrameA == [w |-> 2, h |-> 1, px |-> [c \in Coords(2, 1) |->
             IF c[1] = 0 THEN <<1, 255>> ELSE <<2, 129>>]]
FrameB == [w |-> 2, h |-> 1, px |-> [c \in Coords(2, 1) |->
             IF c[1] = 0 THEN <<1, 128>> ELSE <<1, 255>>]]
SourceFrames == [im : {FrameA, FrameB}, duration : {{}, {0}, {-20}, {40}}]
Animations == UNION {[1..n -> SourceFrames] : n \in 0..MaxFrames}
NotSaved == [frames |-> <<>>, duration |-> <<>>, loop |-> 0, disposal |-> 0]

AnimIdle ==
    /\ apc = "idle" /\ src_frames = <<>> /\ adir = DEFAULT_DIRECTION
    /\ loop_info = {} /\ frames = <<>> /\ durations = <<>>
    /\ gif_frames = <<>> /\ saved = NotSaved

InitAnim ==
    /\ apc = "iterate"
    /\ src_frames \in Animations
    /\ adir \in {"left", "down", "centre"}
    /\ loop_info \in {{}, {2}}
    /\ frames = <<>>
    /\ durations = <<>>
    /\ gif_frames = <<>>
    /\ saved = NotSaved

\* lines 100-108: one iteration of "for frame in ImageSequence.Iterator(img)"
AnimIterate ==
    /\ apc = "iterate"
    /\ Len(frames) < Len(src_frames)
    /\ LET frame == src_frames[Len(frames) + 1]
       IN  /\ durations' = Append(durations, FrameDuration(frame.duration))
           /\ frames' = Append(frames, _apply_symmetric(frame.im, adir))
    /\ UNCHANGED <<apc, src_frames, adir, loop_info, gif_frames, saved>>
    /\ UNCHANGED <<wrapVars, symVars, cmdVars, restVars>>

\* lines 110-111: the iterator is exhausted; ValueError when it gave no frame
AnimCheck ==
    /\ apc = "iterate"
    /\ Len(frames) = Len(src_frames)
    /\ apc' = IF frames = <<>> THEN "error" ELSE "quantize"
    /\ UNCHANGED <<src_frames, adir, loop_info, frames, durations, gif_frames, saved>>
    /\ UNCHANGED <<wrapVars, symVars, cmdVars, restVars>>

\* lines 115-125: one iteration of "for f in frames"
AnimQuantize ==
    /\ apc = "quantize"
    /\ Len(gif_frames) < Len(frames)
    /\ gif_frames' = Append(gif_frames, ToGifFrame(frames[Len(gif_frames) + 1]))
    /\ UNCHANGED <<apc, src_frames, adir, loop_info, frames, durations, saved>>
    /\ UNCHANGED <<wrapVars, symVars, cmdVars, restVars>>

\* lines 127-138: gif_frames[0].save(..., append_images=gif_frames[1:], ...)
AnimSave ==
    /\ apc = "quantize"
    /\ Len(gif_frames) = Len(frames)
    /\ saved' = [frames   |-> <<Head(gif_frames)>> \o Tail(gif_frames),
                 duration |-> durations,
                 loop     |-> get(loop_info, 0),
                 disposal |-> 2]
    /\ apc' = "done"
    /\ UNCHANGED <<src_frames, adir, loop_info, frames, durations, gif_frames>>
    /\ UNCHANGED <<wrapVars, symVars, cmdVars, restVars>>

(***************************************************************************)
(* symmetric/__init__.py : handle_symmetric                                *)
(*                                                                         *)
(* content is what the downloaded bytes are: kind "garbage" (no Pillow     *)
(* plugin recognises them, Image.open raises UnidentifiedImageError),      *)
(* "truncated" (recognised by Image.open, OSError when the pixels are      *)
(* loaded) or "image"; animated tells which path an intact file of that    *)
(* origin takes (is_animated).                                             *)
(***************************************************************************)
\* isinstance(exc, cls) for the exception classes met here
IsInstance(exc, cls) ==
    \/ cls = "Exception"
    \/ exc = cls
    \/ (exc = "UnidentifiedImageError" /\ cls = "OSError")

\* lines 210-215: the except clauses in source order, with the reply each sends
ExceptClauses ==
    << [cls |-> "UnidentifiedImageError", reply |-> "unrecognized_format"],
       [cls |-> "Exception",              reply |-> "processing_failed"] >>

\* A plausible slip: "except Exception" written first catches everything.
ReplyOnError_GenericFirst(exc) == "processing_failed"

\* the reply of the first clause that matches the raised exception
ReplyOnError(exc) ==
    LET i == CHOOSE k \in 1..Len(ExceptClauses) :
                 /\ IsInstance(exc, ExceptClauses[k].cls)
                 /\ \A j \in 1..(k - 1) : ~IsInstance(exc, ExceptClauses[j].cls)
    IN  ExceptClauses[i].reply

\* lines 203-209: what opening and processing the temporary file raises
Raised(c) ==
    CASE c.kind = "garbage"   -> "UnidentifiedImageError"
      [] c.kind = "truncated" -> "OSError"
      [] OTHER                -> "none"

\* lines 169-175: the direction named by the first character of the text
ParseDirection(t) ==
    IF t # <<>> /\ Head(t) \in VALID_DIRECTIONS THEN Head(t) ELSE DEFAULT_DIRECTION

Contents  == [kind : {"garbage", "truncated", "image"}, animated : BOOLEAN]
CmdTexts  == {<<>>, <<"right">>, <<"up", "x">>, <<"x", "down">>}

CmdIdle ==
    /\ hpc = "idle" /\ cmd_text = <<>> /\ hdir = DEFAULT_DIRECTION
    /\ has_image = "none" /\ net_ok = FALSE
    /\ content = [kind |-> "image", animated |-> FALSE]
    /\ temp_file = FALSE /\ opens = 0 /\ replies = <<>>

InitCmd ==
    /\ hpc = "parse"
    /\ cmd_text \in CmdTexts
    /\ hdir = DEFAULT_DIRECTION
    /\ has_image \in {"args", "reply", "none"}
    /\ net_ok \in BOOLEAN
    /\ content \in Contents
    /\ temp_file = FALSE
    /\ opens = 0
    /\ replies = <<>>

\* lines 169-193: parse the direction, look for an image url; without one the
\* usage text is sent and the handler is finished
HandleParse ==
    /\ hpc = "parse"
    /\ hdir' = ParseDirection(cmd_text)
    /\ IF has_image = "none"
       THEN /\ replies' = Append(replies, [type |-> "text", body |-> "usage"])
            /\ hpc' = "finished"
       ELSE /\ replies' = replies
            /\ hpc' = "download"
    /\ UNCHANGED <<cmd_text, has_image, net_ok, content, temp_file, opens>>
    /\ UNCHANGED <<wrapVars, symVars, animVars, restVars>>

\* lines 195-199: await _download_image; on any exception the temporary file
\* is removed and the failure text is sent
HandleDownload ==
    /\ hpc = "download"
    /\ IF net_ok
       THEN /\ temp_file' = TRUE
            /\ replies' = replies
            /\ hpc' = "process"
       ELSE /\ temp_file' = FALSE
            /\ replies' = Append(replies, [type |-> "text", body |-> "download_failed"])
            /\ hpc' = "finished"
    /\ UNCHANGED <<cmd_text, hdir, has_image, net_ok, content, opens>>
    /\ UNCHANGED <<wrapVars, symVars, animVars, restVars>>

\* lines 202-221: open and process the file once, remove it, send the result
\* or the reply of the except clause that caught the error
HandleProcess ==
    /\ hpc = "process"
    /\ opens' = opens + 1
    /\ temp_file' = FALSE
    /\ replies' = Append(replies,
          IF Raised(content) = "none"
          THEN [type |-> "image",
                body |-> IF content.animated THEN "gif" ELSE "png"]
          ELSE [type |-> "text", body |-> ReplyOnError(Raised(content))])
    /\ hpc' = "finished"
    /\ UNCHANGED <<cmd_text, hdir, has_image, net_ok, content>>
    /\ UNCHANGED <<wrapVars, symVars, animVars, restVars>>

(***************************************************************************)
(* quotes/draw.py : generate_chat_screenshot                               *)
(*                                                                         *)
(* The function is followed through its three parts: the layout arithmetic *)
(* (lines 122-141), the avatar (146-152) and the drawing and encoding      *)
(* (154-182).  A font is what the function asks of it: the advance of each *)
(* glyph (half pixels) and ascent + descent (whole pixels).  Avatar bytes  *)
(* are one of four kinds: a complete image file, no bytes, bytes no Pillow *)
(* plugin recognises, and a file whose header is recognised but whose      *)
(* pixel data is cut short.  Image.open reads the header only; the pixels  *)
(* are decoded by the first operation that needs them, here the resize of  *)
(* _circle_crop.                                                           *)
(***************************************************************************)
_CANVAS_W       == 900
_AVATAR_SIZE    == 85
_AVATAR_X       == 50
_BUBBLE_PH      == 22
_BUBBLE_PV      == 18
_TEXT_FONT_SIZE == 32
_LINE_GAP       == 8
_MAX_TEXT_W     == 600
_TOP_PAD        == 30
_BOT_PAD        == 30
gap_nb          == 10
SP              == 32     \* the space measured in place of an empty line

\* Two text fonts: the glyph advances of FontA and FontB with a space added,
\* and two values of ascent + descent.
TextFonts ==
    { [adv |-> [c \in Chars \cup {SP} |-> IF c = SP THEN Px(8) ELSE FontA[c]],
       metrics |-> 20],
      [adv |-> [c \in Chars \cup {SP} |-> IF c = SP THEN 1 ELSE FontB[c]],
       metrics |-> 40] }

\* int(x) of a non-negative width x given in half pixels.
int(x) == x \div 2

max(S) == CHOOSE m \in S : \A x \in S : x <= m

\* max(_measure_line(ln if ln else " ", text_font, emoji_w) for ln in wrapped)
max_line_w(wr, f, ew) ==
    max({ _measure_line(IF wr[i] = <<>> THEN <<SP>> ELSE wr[i], f, ew) :
            i \in 1..Len(wr) })

text_block_h(line_h, n) == line_h * n + _LINE_GAP * max({n - 1, 0})

\* A plausible slip: the padding is added once instead of on both sides.
BubbleWidth_OnePad(mlw) == int(mlw) + _BUBBLE_PH

BubbleWidth(mlw) == int(mlw) + _BUBBLE_PH * 2

BubbleHeight(tbh) == tbh + _BUBBLE_PV * 2

\* A plausible slip: the floor at the avatar's height is left out.
TotalHeight_NoFloor(nh, bh) == _TOP_PAD + nh + gap_nb + bh + _BOT_PAD

TotalHeight(nh, bh) ==
    max({ _TOP_PAD + nh + gap_nb + bh + _BOT_PAD,
          _AVATAR_SIZE + _TOP_PAD + _BOT_PAD })

\* Image.open(BytesIO(avatar_bytes)) raises (UnidentifiedImageError).
OpenRaises(b) == b \in {"empty", "garbage"}

\* Decoding the pixels of an opened image raises (OSError, truncated file).
LoadRaises(b) == b = "truncated"

ShotIdle ==
    /\ shpc = "idle" /\ avatar_bytes = "empty" /\ message = <<>>
    /\ text_font = [adv |-> FontA, metrics |-> 0] /\ nick_h = 0
    /\ shot_lines = <<>> /\ bub_w = 0 /\ bub_h = 0 /\ total_h = 0
    /\ ava = "none" /\ png = <<>>

InitShot ==
    /\ shpc = "layout"
    /\ avatar_bytes \in {"valid", "empty", "garbage", "truncated"}
    /\ message \in UNION {[1..n -> Chars] : n \in 0..MaxMsgLen}
    /\ text_font \in TextFonts
    /\ nick_h \in {10, 28}
    /\ shot_lines = <<>> /\ bub_w = 0 /\ bub_h = 0 /\ total_h = 0
    /\ ava = "none" /\ png = <<>>

\* Lines 122-141: wrap the message and compute the sizes.
ShotLayout ==
    /\ shpc = "layout"
    /\ LET emoji_width == Px(_TEXT_FONT_SIZE)
           wr == _wrap_text(message, text_font.adv, _MAX_TEXT_W, emoji_width)
           bh == BubbleHeight(text_block_h(text_font.metrics, Len(wr)))
       IN  /\ shot_lines' = wr
           /\ bub_w' = BubbleWidth(max_line_w(wr, text_font.adv, emoji_width))
           /\ bub_h' = bh
           /\ total_h' = TotalHeight(nick_h, bh)
    /\ shpc' = "avatar"
    /\ UNCHANGED <<avatar_bytes, message, text_font, nick_h, ava, png>>
    /\ UNCHANGED notShot

\* Lines 146-151: the open is guarded by try/except, _circle_crop is not.
ShotAvatar ==
    /\ shpc = "avatar"
    /\ ava' = IF OpenRaises(avatar_bytes) THEN "placeholder" ELSE "opened"
    /\ shpc' = IF ~OpenRaises(avatar_bytes) /\ LoadRaises(avatar_bytes)
               THEN "raised" ELSE "draw"
    /\ UNCHANGED <<avatar_bytes, message, text_font, nick_h, shot_lines, bub_w, bub_h,
                   total_h, png>>
    /\ UNCHANGED notShot

\* Lines 152-182: paste the avatar, draw bubble and text, encode as PNG.
ShotDraw ==
    /\ shpc = "draw"
    /\ png' = [w |-> _CANVAS_W, h |-> total_h,
               avatar |-> [kind |-> ava, x |-> _AVATAR_X, y |-> _TOP_PAD,
                           size |-> _AVATAR_SIZE],
               bubble |-> [w |-> bub_w, h |-> bub_h], text |-> shot_lines]
    /\ shpc' = "returned"
    /\ UNCHANGED <<avatar_bytes, message, text_font, nick_h, shot_lines, bub_w, bub_h,
                   total_h, ava>>
    /\ UNCHANGED notShot

(***************************************************************************)
(* quotes/draw.py : _resolve_font_path under concurrent calls              *)
(*                                                                         *)
(* async_generate_chat_screenshot runs each generate_chat_screenshot in a  *)
(* worker thread.  Each call resolves the font path twice (_get_font for   *)
(* the nickname font and for the text font).  Threads interleave between   *)
(* the test of the global, the scan of the search paths and the store.     *)
(* The global holds Ellipsis until the first store; None is written when   *)
(* no font file exists.  The font files do not change while the calls run. *)
(***************************************************************************)
_FONT_SEARCH_PATHS == 1..5
Ellipsis == -1
None     == 0
Calls    == 1..MaxCalls

\* A plausible slip: the scan keeps the last existing path, not the first.
FirstExisting_Last(fs) ==
    IF fs = {} THEN None ELSE CHOOSE p \in fs : \A q \in fs : q <= p

\* for p in _FONT_SEARCH_PATHS: if Path(p).exists(): ... return p
FirstExisting(fs) ==
    IF fs = {} THEN None ELSE CHOOSE p \in fs : \A q \in fs : p <= q

\* The call goes on to its next _get_font, or is done after the second.
AfterGetFont(g) == IF Len(g) = 2 THEN "done" ELSE "test"

FontIdle ==
    /\ font_exists = {} /\ _font_path_cache = Ellipsis /\ cache_writer = 0
    /\ fpc = <<>> /\ found = <<>> /\ got = <<>>

InitFont ==
    /\ font_exists \in SUBSET _FONT_SEARCH_PATHS
    /\ _font_path_cache = Ellipsis
    /\ cache_writer = 0
    /\ fpc = [t \in Calls |-> "test"]
    /\ found = [t \in Calls |-> None]
    /\ got = [t \in Calls |-> <<>>]

\* Line 26: if _font_path_cache is not ...
FontTest(t) ==
    /\ fpc[t] = "test"
    /\ fpc' = [fpc EXCEPT ![t] = IF _font_path_cache # Ellipsis
                                 THEN "cached" ELSE "scan"]
    /\ UNCHANGED <<font_exists, _font_path_cache, cache_writer, found, got>>
    /\ UNCHANGED notFont

\* Line 27: return _font_path_cache
FontCached(t) ==
    /\ fpc[t] = "cached"
    /\ got' = [got EXCEPT ![t] = Append(@, _font_path_cache)]
    /\ fpc' = [fpc EXCEPT ![t] = AfterGetFont(got'[t])]
    /\ UNCHANGED <<font_exists, _font_path_cache, cache_writer, found>>
    /\ UNCHANGED notFont

\* Lines 28-29: the loop over the search paths
FontScan(t) ==
    /\ fpc[t] = "scan"
    /\ found' = [found EXCEPT ![t] = FirstExisting(font_exists)]
    /\ fpc' = [fpc EXCEPT ![t] = "store"]
    /\ UNCHANGED <<font_exists, _font_path_cache, cache_writer, got>>
    /\ UNCHANGED notFont

\* Lines 30-31 and 32-33: store the path (or None) in the global, return it
FontStore(t) ==
    /\ fpc[t] = "store"
    /\ _font_path_cache' = found[t]
    /\ cache_writer' = t
    /\ got' = [got EXCEPT ![t] = Append(@, found[t])]
    /\ fpc' = [fpc EXCEPT ![t] = AfterGetFont(got'[t])]
    /\ UNCHANGED <<font_exists, found>>
    /\ UNCHANGED notFont

(***************************************************************************)
(* quotes/__init__.py, toggle/__init__.py : handlers writing the JSON      *)
(* stores of one group                                                     *)
(*                                                                         *)
(* Two command handlers run as coroutines on one event loop: control       *)
(* passes from one to the other only where a handler awaits.  Each action  *)
(* below is the code a handler runs from one await to the next, computed   *)
(* by an operator on the record of the stores and the handlers' locals.    *)
(* finish() ends a handler.  A short id is a random string not yet in the  *)
(* index; the model takes the least unused number.  The file name of an    *)
(* upload is a fresh uuid; the model numbers it by handler and image.      *)
(***************************************************************************)
Names    == {"n1", "n2"}
NoName   == ""
Modules  == {"tarot", "quotes"}
Handlers == 1..2

\* The commands: kind, the name argument, the alias argument, the outcome of
\* the download of each attached image (upload), the feature (disable).
Commands ==
    [kind : {"add_member"}, name : Names, alias : {NoName}, urls : {<<>>},
     module : {NoName}]
    \cup [kind : {"add_alias"}, name : Names, alias : {"n2", "a1"},
          urls : {<<>>}, module : {NoName}]
    \cup [kind : {"upload"}, name : Names, alias : {NoName},
          urls : UNION {[1..n -> BOOLEAN] : n \in 1..MaxImages},
          module : {NoName}]
    \cup [kind : {"disable"}, name : {NoName}, alias : {NoName}, urls : {<<>>},
          module : Modules]

Range(q) == {q[i] : i \in 1..Len(q)}

\* A plausible slip: the aliases are not looked up.
_resolve_name_MembersOnly(mem, al, name) ==
    IF name \in Range(mem) THEN name ELSE NoName

_resolve_name(mem, al, name) ==
    IF name \in Range(mem) THEN name
    ELSE IF name \in DOMAIN al /\ al[name] \in Range(mem) THEN al[name]
    ELSE NoName

Ids(idx) == {e.id : e \in idx}

_generate_short_id(existing_ids) ==
    CHOOSE i \in 1..(Cardinality(existing_ids) + 1) :
        i \notin existing_ids /\ \A j \in 1..(i - 1) : j \in existing_ids

\* _load_index: every image file without an entry is given one.
RECURSIVE AutoIndex(_, _)
AutoIndex(idx, todo) ==
    IF todo = {} THEN idx
    ELSE LET f == CHOOSE x \in todo : TRUE
         IN  AutoIndex(idx \cup {[id |-> _generate_short_id(Ids(idx)),
                                  member |-> f[1], file |-> f[2]]},
                       todo \ {f})

_load_index(idx, fs) ==
    AutoIndex(idx, {f \in fs : \A e \in idx : <<e.member, e.file>> # f})

\* A plausible slip: the save writes the new entry alone.
_add_to_index_Overwrite(idx, fs, member, filename) ==
    {[id |-> _generate_short_id(Ids(_load_index(idx, fs))),
      member |-> member, file |-> filename]}

\* _add_to_index: the index as saved; the id returned is the one of the
\* entry added last.
_add_to_index(idx, fs, member, filename) ==
    LET loaded == _load_index(idx, fs)
    IN  loaded \cup {[id |-> _generate_short_id(Ids(loaded)),
                      member |-> member, file |-> filename]}

\* handle_add_member, lines 240-254
handle_add_member(s, h) ==
    LET c  == s.cmds[h]
        ok == c.name \notin Range(s.members) /\ c.name \notin DOMAIN s.aliases
    IN  [s EXCEPT !.members = IF ok THEN Append(@, c.name) ELSE @,
                  !.hs[h].pc = "finished",
                  !.hs[h].reply = IF ok THEN "added" ELSE "refused"]

\* handle_add_alias, lines 272-292
handle_add_alias(s, h) ==
    LET c     == s.cmds[h]
        canon == _resolve_name(s.members, s.aliases, c.name)
        ok    == /\ canon # NoName
                 /\ c.alias \notin Range(s.members)
                 /\ c.alias \notin DOMAIN s.aliases
    IN  [s EXCEPT !.aliases = IF ok
                              THEN [a \in DOMAIN @ \cup {c.alias} |->
                                      IF a = c.alias THEN canon ELSE @[a]]
                              ELSE @,
                  !.hs[h].canonical = canon,
                  !.hs[h].pc = "finished",
                  !.hs[h].reply = IF ok THEN "added" ELSE "refused"]

\* handle_upload, lines 331-342: up to the await of _extract_images
handle_upload_start(s, h) ==
    LET c     == s.cmds[h]
        canon == _resolve_name(s.members, s.aliases, c.name)
    IN  [s EXCEPT !.members = IF canon = NoName THEN Append(@, c.name) ELSE @,
                  !.hs[h].canonical = IF canon = NoName THEN c.name ELSE canon,
                  !.hs[h].auto_registered = (canon = NoName),
                  !.hs[h].pc = "extract"]

\* handle_upload, lines 342-358: the images are there, up to the first get
handle_upload_extract(s, h) ==
    [s EXCEPT !.hs[h].i = 1, !.hs[h].pc = "download"]

\* handle_upload, lines 358-376: one download returned; the file is written
\* and indexed; after the last image the handler finishes
handle_upload_image(s, h) ==
    LET c    == s.cmds[h]
        i    == s.hs[h].i
        ok   == c.urls[i]
        who  == s.hs[h].canonical
        f    == <<who, 10 * h + i>>
        fs   == s.files \cup {f}
        idx  == _add_to_index(s.index, fs, who, f[2])
        ids  == IF ok THEN Append(s.hs[h].saved_ids,
                                  _generate_short_id(Ids(_load_index(s.index, fs))))
                ELSE s.hs[h].saved_ids
        last == i = Len(c.urls)
    IN  [s EXCEPT !.files = IF ok THEN fs ELSE @,
                  !.index = IF ok THEN idx ELSE @,
                  !.hs[h].saved_ids = ids,
                  !.hs[h].i = i + 1,
                  !.hs[h].pc = IF last THEN "finished" ELSE "download",
                  !.hs[h].reply = IF ~last THEN @
                                  ELSE IF ids = <<>> THEN "failed" ELSE "saved"]

\* _load_config: the cached dict, read from the file on the first call
_load_config(s) ==
    IF s._config_cache.loaded THEN s._config_cache.disabled
    ELSE IF s.config_file.exists THEN s.config_file.disabled ELSE {}

\* handle_disable, lines 203-213
handle_disable(s, h) ==
    LET c      == s.cmds[h]
        config == _load_config(s)
        ok     == c.module \notin config
        after  == IF ok THEN config \cup {c.module} ELSE config
    IN  [s EXCEPT !._config_cache = [loaded |-> TRUE, disabled |-> after],
                  !.config_file = IF ok THEN [exists |-> TRUE, disabled |-> after]
                                  ELSE @,
                  !.hs[h].pc = "finished",
                  !.hs[h].reply = IF ok THEN "disabled" ELSE "refused"]

\* The part of handler h that runs next, up to its next await.
Resume(s, h) ==
    LET k == s.cmds[h].kind
        at == s.hs[h].pc
    IN  CASE k = "add_member" -> handle_add_member(s, h)
          [] k = "add_alias"  -> handle_add_alias(s, h)
          [] k = "disable"    -> handle_disable(s, h)
          [] k = "upload" /\ at = "start"    -> handle_upload_start(s, h)
          [] k = "upload" /\ at = "extract"  -> handle_upload_extract(s, h)
          [] k = "upload" /\ at = "download" -> handle_upload_image(s, h)

NoAliases == [a \in {} |-> NoName]
Started == [pc |-> "start", canonical |-> NoName, auto_registered |-> FALSE,
            saved_ids |-> <<>>, i |-> 0, reply |-> "none"]

\* The states the two handlers can start in.
Starts ==
    [members : {<<>>, <<"n1">>}, aliases : {NoAliases}, index : {{}},
     files : {{}}, config_file : {[exists |-> FALSE, disabled |-> {}]},
     _config_cache : {[loaded |-> FALSE, disabled |-> {}]},
     cmds : [Handlers -> Commands], hs : {[h \in Handlers |-> Started]}]

Now ==
    [members |-> members, aliases |-> aliases, index |-> index, files |-> files,
     config_file |-> config_file, _config_cache |-> _config_cache,
     cmds |-> cmds, hs |-> hs]

Becomes(s) ==
    /\ members' = s.members /\ aliases' = s.aliases /\ index' = s.index
    /\ files' = s.files /\ config_file' = s.config_file
    /\ _config_cache' = s._config_cache /\ cmds' = s.cmds /\ hs' = s.hs
    /\ UNCHANGED notStore

StoreIdle ==
    /\ members = <<>> /\ aliases = NoAliases /\ index = {} /\ files = {}
    /\ config_file = [exists |-> FALSE, disabled |-> {}]
    /\ _config_cache = [loaded |-> FALSE, disabled |-> {}]
    /\ cmds = <<>> /\ hs = <<>>

InitStore ==
    \E s \in Starts :
        /\ members = s.members /\ aliases = s.aliases /\ index = s.index
        /\ files = s.files /\ config_file = s.config_file
        /\ _config_cache = s._config_cache /\ cmds = s.cmds /\ hs = s.hs

At(h, k, at) == cmds[h].kind = k /\ hs[h].pc = at

HandleAddMember(h)     == At(h, "add_member", "start") /\ Becomes(handle_add_member(Now, h))
HandleAddAlias(h)      == At(h, "add_alias", "start") /\ Becomes(handle_add_alias(Now, h))
HandleDisable(h)       == At(h, "disable", "start") /\ Becomes(handle_disable(Now, h))
HandleUploadStart(h)   == At(h, "upload", "start") /\ Becomes(handle_upload_start(Now, h))
HandleUploadExtract(h) == At(h, "upload", "extract") /\ Becomes(handle_upload_extract(Now, h))
HandleUploadImage(h)   == At(h, "upload", "download") /\ Becomes(handle_upload_image(Now, h))

(***************************************************************************)
(* tarot/__init__.py : handle_tarot_ten                                    *)
(*                                                                         *)
(* Invocations are coroutines on one event loop.  An invocation runs from  *)
(* its start to its first await without interruption: the refusal (finish) *)
(* or the send of the ten cards.  The send may fail; after a successful    *)
(* send an upright World card is announced.  The date only moves forward.  *)
(***************************************************************************)
Users    == {"u1", "u2"}
TenCards == 10

\* A plausible slip: the limit is kept per day, not per user and day.
AlreadyDrawn_AnyUser(usage, user_id, day) ==
    \E u \in DOMAIN usage : usage[u] = day

\* _ten_draw_usage.get(user_id) == today
AlreadyDrawn(usage, user_id, day) ==
    user_id \in DOMAIN usage /\ usage[user_id] = day

TenIdle == _ten_draw_usage = <<>> /\ today = 0 /\ invs = <<>>

InitTen == _ten_draw_usage = <<>> /\ today = 1 /\ invs = <<>>

\* Lines 124-151: from the start of an invocation to its first await.
TenStart(u) ==
    /\ Len(invs) < MaxInvocations
    /\ IF AlreadyDrawn(_ten_draw_usage, u, today)
       THEN /\ invs' = Append(invs, [user |-> u, day |-> today, reply |-> "refused",
                                     cards |-> 0, world |-> FALSE, pc |-> "done"])
            /\ UNCHANGED _ten_draw_usage
       ELSE /\ _ten_draw_usage' = [x \in DOMAIN _ten_draw_usage \cup {u} |->
                                     IF x = u THEN today ELSE _ten_draw_usage[x]]
            /\ \E has_upright_world \in BOOLEAN :
                   invs' = Append(invs, [user |-> u, day |-> today, reply |-> "none",
                                         cards |-> TenCards,
                                         world |-> has_upright_world, pc |-> "send"])
    /\ UNCHANGED today
    /\ UNCHANGED notTen

\* Line 151: the send returns or raises.
TenSend(i) ==
    /\ i \in 1..Len(invs) /\ invs[i].pc = "send"
    /\ \E sent \in BOOLEAN :
           invs' = [invs EXCEPT ![i].reply = IF sent THEN "result" ELSE "error",
                                ![i].pc = IF sent /\ invs[i].world
                                          THEN "notify" ELSE "done"]
    /\ UNCHANGED <<_ten_draw_usage, today>>
    /\ UNCHANGED notTen

\* Lines 154-155: _notify_world
TenNotify(i) ==
    /\ i \in 1..Len(invs) /\ invs[i].pc = "notify"
    /\ invs' = [invs EXCEPT ![i].pc = "done"]
    /\ UNCHANGED <<_ten_draw_usage, today>>
    /\ UNCHANGED notTen

\* date.today() moves to the next day.
Midnight ==
    /\ today < MaxDay
    /\ today' = today + 1
    /\ UNCHANGED <<_ten_draw_usage, invs>>
    /\ UNCHANGED notTen

(***************************************************************************)
(* toggle/__init__.py : toggle_check, handle_enable, handle_disable        *)
(*                                                                         *)
(* The config is {"disabled": {group: [key, ...]}}; the model keeps it as  *)
(* the set of <<group, key>>.  The dict returned by _load_config is the    *)
(* cached object, so a change made by a handler is a change of the cache.  *)
(* A plugin name is a sequence of parts ("yiyin.tarot" is <<"yiyin",       *)
(* "tarot">>); <<>> stands for a matcher without plugin.  The commands are *)
(* group commands; a restart of the process empties the cache.             *)
(***************************************************************************)
Groups == {"g1", "g2"}
_SELF_PLUGIN == "toggle"
PLUGIN_REGISTRY == [tarot |-> "Tarot", quotes |-> "Quotes"]
DisplayNames == {"Tarot", "Quotes", "Other"}

\* _DISPLAY_TO_MODULE.get(name); NoName for None
_DISPLAY_TO_MODULE(name) ==
    IF \E k \in DOMAIN PLUGIN_REGISTRY : PLUGIN_REGISTRY[k] = name
    THEN CHOOSE k \in DOMAIN PLUGIN_REGISTRY : PLUGIN_REGISTRY[k] = name
    ELSE NoName

\* The plugins of the matchers: two registered ones under both naming
\* formats, the toggle plugin, an unregistered plugin, and none.
Plugins == {<<>>, <<"yiyin", "tarot">>, <<"tarot">>, <<"yiyin", "quotes">>,
            <<"yiyin", "toggle">>, <<"yiyin", "mohe">>}

\* The events: a group message of a group, or a private message.
Events == [kind : {"group"}, group_id : Groups]
          \cup [kind : {"private"}, group_id : {NoName}]

\* _get_plugin_key: the last part of the plugin's name; NoName for None
_get_plugin_key(p) == IF p = <<>> THEN NoName ELSE p[Len(p)]

ToggleConfig == [_config_cache |-> toggle_cache, config_file |-> toggle_file]

\* A plausible slip: the group is not looked at.
_is_disabled_AnyGroup(config, plugin_key, group_id) ==
    \E g \in Groups : <<g, plugin_key>> \in config

_is_disabled(config, plugin_key, group_id) == <<group_id, plugin_key>> \in config

\* toggle_check: TRUE when IgnoredException is raised
toggle_check(config, p, e) ==
    LET plugin_key == _get_plugin_key(p)
    IN  /\ e.kind = "group"
        /\ plugin_key # NoName /\ plugin_key # _SELF_PLUGIN
        /\ plugin_key \in DOMAIN PLUGIN_REGISTRY
        /\ _is_disabled(config, plugin_key, e.group_id)

ToggleIdle ==
    /\ toggle_file = [exists |-> FALSE, disabled |-> {}]
    /\ toggle_cache = [loaded |-> FALSE, disabled |-> {}]
    /\ toggle_last = <<>> /\ toggle_seen = <<>>

InitToggle ==
    /\ toggle_file = [exists |-> FALSE, disabled |-> {}]
    /\ toggle_cache = [loaded |-> FALSE, disabled |-> {}]
    /\ toggle_last = [x \in Groups \X DOMAIN PLUGIN_REGISTRY |-> "none"]
    /\ toggle_seen = <<>>

\* handle_disable, lines 193-213
ToggleDisable(g, name) ==
    LET module_key == _DISPLAY_TO_MODULE(name)
        config     == _load_config(ToggleConfig)
    IN  /\ module_key # NoName
        /\ IF <<g, module_key>> \in config
           THEN /\ toggle_cache' = [loaded |-> TRUE, disabled |-> config]
                /\ UNCHANGED <<toggle_file, toggle_last>>
           ELSE LET after == config \cup {<<g, module_key>>}
                IN  /\ toggle_cache' = [loaded |-> TRUE, disabled |-> after]
                    /\ toggle_file' = [exists |-> TRUE, disabled |-> after]
                    /\ toggle_last' = [toggle_last EXCEPT ![<<g, module_key>>] = "disabled"]
        /\ UNCHANGED toggle_seen
        /\ UNCHANGED notToggle

\* handle_enable, lines 160-185
ToggleEnable(g, name) ==
    LET module_key == _DISPLAY_TO_MODULE(name)
        config     == _load_config(ToggleConfig)
    IN  /\ module_key # NoName
        /\ IF <<g, module_key>> \notin config
           THEN /\ toggle_cache' = [loaded |-> TRUE, disabled |-> config]
                /\ UNCHANGED <<toggle_file, toggle_last>>
           ELSE LET after == config \ {<<g, module_key>>}
                IN  /\ toggle_cache' = [loaded |-> TRUE, disabled |-> after]
                    /\ toggle_file' = [exists |-> TRUE, disabled |-> after]
                    /\ toggle_last' = [toggle_last EXCEPT ![<<g, module_key>>] = "enabled"]
        /\ UNCHANGED toggle_seen
        /\ UNCHANGED notToggle

\* toggle_check, lines 96-115, before a matcher of plugin p runs on event e
ToggleCheck(p, e) ==
    LET config  == _load_config(ToggleConfig)
        reaches == /\ e.kind = "group"
                   /\ _get_plugin_key(p) \notin {NoName, _SELF_PLUGIN}
                   /\ _get_plugin_key(p) \in DOMAIN PLUGIN_REGISTRY
    IN  /\ toggle_seen' = [kind |-> e.kind, plugin |-> p, group |-> e.group_id,
                           ignored |-> toggle_check(config, p, e)]
        /\ toggle_cache' = IF reaches THEN [loaded |-> TRUE, disabled |-> config]
                           ELSE toggle_cache
        /\ UNCHANGED <<toggle_file, toggle_last>>
        /\ UNCHANGED notToggle

\* The process is started again: the module global is None.
ToggleRestart ==
    /\ toggle_cache.loaded
    /\ toggle_cache' = [loaded |-> FALSE, disabled |-> {}]
    /\ UNCHANGED <<toggle_file, toggle_last, toggle_seen>>
    /\ UNCHANGED notToggle

(***************************************************************************)
(* mohe/__init__.py : _schedule_today, _on_startup, the daily reschedule   *)
(*                                                                         *)
(* Time is a day and an hour.  A date job runs once, in its hour, while    *)
(* the process is up.  The jobs live in the scheduler of the process: a    *)
(* startup begins with none and calls _schedule_today.  random.sample      *)
(* picks two different hours of 9..21; whether a run time in the current   *)
(* hour is already past depends on the minutes, which the model leaves     *)
(* open (past).  The cron job calls _schedule_today in hour 0.             *)
(***************************************************************************)
NoJob == <<>>

\* sorted(random.sample(range(9, 22), 2))
ChosenHours == {chosen_hours \in (9..21) \X (9..21) : chosen_hours[1] < chosen_hours[2]}

\* _schedule_today at time t: the old jobs are removed; job i is added for
\* the i-th chosen hour unless that time is not after t.
_schedule_today(t, chosen_hours, past) ==
    [i \in 0..1 |->
        IF chosen_hours[i + 1] < t.hour \/ (chosen_hours[i + 1] = t.hour /\ past)
        THEN NoJob
        ELSE <<t.day, chosen_hours[i + 1]>>]

MoheIdle ==
    /\ now = [day |-> 0, hour |-> 0] /\ up = FALSE /\ jobs = <<>>
    /\ auto_runs = <<>> /\ startups = 0

InitMohe ==
    /\ now = [day |-> 1, hour |-> 0] /\ up = FALSE
    /\ jobs = [i \in 0..1 |-> NoJob]
    /\ auto_runs = [d \in 1..MaxDay |-> 0]
    /\ startups = 0

\* Lines 149-151: the process starts (again) and schedules today's runs.
Startup(chosen_hours, past) ==
    /\ startups < MaxStartups
    /\ startups' = startups + 1
    /\ up' = TRUE
    /\ jobs' = _schedule_today(now, chosen_hours, past)
    /\ UNCHANGED <<now, auto_runs>>
    /\ UNCHANGED notMohe

\* Lines 136-143: the cron job of 00:05.
DailyReschedule(chosen_hours, past) ==
    /\ up /\ now.hour = 0
    /\ jobs' = _schedule_today(now, chosen_hours, past)
    /\ UNCHANGED <<now, up, auto_runs, startups>>
    /\ UNCHANGED notMohe

\* Lines 126-132: the scheduler runs a date job at its run time.
RunJob(i) ==
    /\ up /\ jobs[i] = <<now.day, now.hour>>
    /\ auto_runs' = [auto_runs EXCEPT ![now.day] = @ + 1]
    /\ jobs' = [jobs EXCEPT ![i] = NoJob]
    /\ UNCHANGED <<now, up, startups>>
    /\ UNCHANGED notMohe

\* An hour passes; the jobs due in the hour have run.
Tick ==
    /\ \A i \in 0..1 : jobs[i] # <<now.day, now.hour>>
    /\ now.hour < 23 \/ now.day < MaxDay
    /\ now' = IF now.hour < 23 THEN [now EXCEPT !.hour = @ + 1]
              ELSE [day |-> now.day + 1, hour |-> 0]
    /\ UNCHANGED <<up, jobs, auto_runs, startups>>
    /\ UNCHANGED notMohe

(***************************************************************************)
(* quotes/__init__.py : commands of one group, one after the other         *)
(*                                                                         *)
(* Each command is handled to its end before the next arrives.  The stores *)
(* start empty.  Only the command handled last and its handler's locals    *)
(* are kept, under the number of the command.                              *)
(***************************************************************************)
\* The commands: as above, and the id argument of a deletion.  For a
\* screenshot upload, urls tells whether the quoted message has text.
\* The images attached to an upload, by the outcome of each download.
Attachments == {<<FALSE>>, <<TRUE>>, <<TRUE, FALSE>>, <<TRUE, TRUE>>}

SeqCommand(kind, name, alias, urls, quote_id) ==
    [kind |-> kind, name |-> name, alias |-> alias, urls |-> urls,
     module |-> NoName, quote_id |-> quote_id]

\* handle_screenshot_upload: without text the handler finishes at line 440;
\* otherwise lines 468-489 run after the last await
handle_screenshot_upload(s, h) ==
    LET c     == s.cmds[h]
        canon == _resolve_name(s.members, s.aliases, c.name)
        who   == IF canon = NoName THEN c.name ELSE canon
        f     == <<who, 10 * h>>
        fs    == s.files \cup {f}
    IN  IF ~c.urls[1]
        THEN [s EXCEPT !.hs[h].pc = "finished", !.hs[h].reply = "refused"]
        ELSE [s EXCEPT !.members = IF canon = NoName THEN Append(@, c.name) ELSE @,
                       !.files = fs,
                       !.index = _add_to_index(s.index, fs, who, f[2]),
                       !.hs[h].canonical = who,
                       !.hs[h].auto_registered = (canon = NoName),
                       !.hs[h].saved_ids =
                           <<_generate_short_id(Ids(_load_index(s.index, fs)))>>,
                       !.hs[h].pc = "finished",
                       !.hs[h].reply = "saved"]

\* handle_delete_quote, lines 577-594
handle_delete_quote(s, h) ==
    LET c      == s.cmds[h]
        loaded == _load_index(s.index, s.files)
    IN  IF c.quote_id \notin Ids(loaded)
        THEN [s EXCEPT !.index = loaded,
                       !.hs[h].pc = "finished", !.hs[h].reply = "refused"]
        ELSE LET entry == CHOOSE e \in loaded : e.id = c.quote_id
             IN  [s EXCEPT !.files = @ \ {<<entry.member, entry.file>>},
                           !.index = loaded \ {entry},
                           !.hs[h].canonical = entry.member,
                           !.hs[h].pc = "finished", !.hs[h].reply = "deleted"]

\* Handler h from where it stands to its end.
RECURSIVE RunToEnd(_, _)
RunToEnd(s, h) ==
    IF s.hs[h].pc = "finished" THEN s
    ELSE LET k == s.cmds[h].kind
         IN  RunToEnd(CASE k = "screenshot" -> handle_screenshot_upload(s, h)
                        [] k = "delete"     -> handle_delete_quote(s, h)
                        [] OTHER            -> Resume(s, h),
                      h)

\* The number of commands handled so far.
Issued == IF DOMAIN cmds = {} THEN 0 ELSE CHOOSE h \in DOMAIN cmds : TRUE

\* The stores after command c is handled.
Handled(c) ==
    LET h == Issued + 1
    IN  RunToEnd([Now EXCEPT !.cmds = [x \in {h} |-> c],
                             !.hs = [x \in {h} |-> Started]], h)

AddMember(name) ==
    /\ Issued < MaxCommands
    /\ Becomes(Handled(SeqCommand("add_member", name, NoName, <<>>, 0)))

AddAlias(name, alias) ==
    /\ Issued < MaxCommands
    /\ Becomes(Handled(SeqCommand("add_alias", name, alias, <<>>, 0)))

Upload(name, urls) ==
    /\ Issued < MaxCommands
    /\ Becomes(Handled(SeqCommand("upload", name, NoName, urls, 0)))

ScreenshotUpload(name, has_text) ==
    /\ Issued < MaxCommands
    /\ Becomes(Handled(SeqCommand("screenshot", name, NoName, <<has_text>>, 0)))

\* The id given is one of the index, or none of them (0).
DeleteQuote ==
    /\ Issued < MaxCommands
    /\ \E quote_id \in Ids(index) \cup {0} :
           Becomes(Handled(SeqCommand("delete", NoName, NoName, <<>>, quote_id)))

(***************************************************************************)
(* wolfram/__init__.py : handle_wolfram                                    *)
(*                                                                         *)
(* One invocation of the command.  finish(msg) sends msg and then raises   *)
(* FinishedException, by which the framework ends the handler; the class   *)
(* derives from Exception, as do the errors of the HTTP client, of the     *)
(* JSON decoder and of the bot API.  An exception raised inside the try    *)
(* block goes to the first except clause that matches its class.           *)
(***************************************************************************)
Exceptions == {"FinishedException", "TimeoutException", "OtherException"}
NoException == "none"

\* What the request can come to: no answer in time, another failure of the
\* client, a status other than 200, a body that is not JSON, a result with
\* success false, a result without pods, a result with pods.
Responses == {"timeout", "failed", "status", "not_json", "no_success", "no_pods", "pods"}

\* finish(msg): the messages sent, and the exception raised
finish(sent, msg) == [sent |-> Append(sent, msg), raised |-> "FinishedException"]

raise(sent, exc) == [sent |-> sent, raised |-> exc]

\* Lines 122-129: the except clauses of the try block.
except(r) ==
    IF r.raised = "TimeoutException" THEN finish(r.sent, "timeout")
    ELSE IF r.raised \in Exceptions THEN finish(r.sent, "error")
    ELSE r

\* Lines 44-77: the try block from the request to the pods.
try_request(sent, response) ==
    CASE response = "timeout"    -> raise(sent, "TimeoutException")
      [] response = "failed"     -> raise(sent, "OtherException")
      [] response = "status"     -> finish(sent, "query_failed")
      [] response = "not_json"   -> raise(sent, "OtherException")
      [] response = "no_success" -> finish(sent, "not_understood")
      [] response = "no_pods"    -> finish(sent, "no_result")
      [] response = "pods"       -> raise(sent, NoException)

WolfIdle ==
    wolfram_in = <<>> /\ wolfram_pc = "idle" /\ wolfram_sent = <<>>

InitWolf ==
    /\ wolfram_in \in [appid : BOOLEAN, query : BOOLEAN, response : Responses,
                       login : BOOLEAN, forward : BOOLEAN, group : BOOLEAN]
    /\ wolfram_pc = "start"
    /\ wolfram_sent = <<>>

\* Lines 32-39: the checks before the try block.
WolframStart ==
    /\ wolfram_pc = "start"
    /\ IF ~wolfram_in.appid
       THEN wolfram_sent' = finish(wolfram_sent, "unconfigured").sent /\ wolfram_pc' = "done"
       ELSE IF ~wolfram_in.query
       THEN wolfram_sent' = finish(wolfram_sent, "usage").sent /\ wolfram_pc' = "done"
       ELSE wolfram_pc' = "request" /\ UNCHANGED wolfram_sent
    /\ UNCHANGED wolfram_in
    /\ UNCHANGED notWolf

\* Lines 44-77: the request returns or raises.
WolframResponse ==
    /\ wolfram_pc = "request"
    /\ LET r == except(try_request(wolfram_sent, wolfram_in.response))
       IN  /\ wolfram_sent' = r.sent
           /\ wolfram_pc' = IF r.raised = NoException THEN "login" ELSE "done"
    /\ UNCHANGED wolfram_in
    /\ UNCHANGED notWolf

\* Line 80: get_login_info returns or raises.
WolframLogin ==
    /\ wolfram_pc = "login"
    /\ LET r == except(raise(wolfram_sent,
                             IF wolfram_in.login THEN NoException ELSE "OtherException"))
       IN  /\ wolfram_sent' = r.sent
           /\ wolfram_pc' = IF r.raised = NoException THEN "forward" ELSE "done"
    /\ UNCHANGED wolfram_in
    /\ UNCHANGED notWolf

\* Lines 112-120: the forward message is sent, or the send raises.
WolframForward ==
    /\ wolfram_pc = "forward"
    /\ LET r == except(IF wolfram_in.forward
                       THEN raise(Append(wolfram_sent,
                                         IF wolfram_in.group THEN "group_forward"
                                         ELSE "private_forward"), NoException)
                       ELSE raise(wolfram_sent, "OtherException"))
       IN  wolfram_sent' = r.sent
    /\ wolfram_pc' = "done"
    /\ UNCHANGED wolfram_in
    /\ UNCHANGED notWolf

(***************************************************************************)
(* roleplay/__init__.py : handle_group_msg                                 *)
(*                                                                         *)
(* The messages of one group in which the feature is enabled.  Each        *)
(* message starts an invocation; invocations are coroutines on one event   *)
(* loop, so one runs without interruption from its start to the await of   *)
(* the LLM call, and from the return of the call to the send.  The text of *)
(* a message is told apart by the number of the message; the reply to it   *)
(* carries the same number.  The clock only moves forward.                 *)
(***************************************************************************)
COOLDOWN      == 300
MAX_CONTEXT   == 30
SYSTEM_PROMPT == 0
TickSeconds   == 100

time == clock * TickSeconds

\* deque(maxlen=MAX_CONTEXT).append
deque_append(history, entry) ==
    IF Len(history) < MAX_CONTEXT THEN Append(history, entry)
    ELSE Append(Tail(history), entry)

_build_messages(history, current_text) ==
    <<[role |-> "system", content |-> SYSTEM_PROMPT]>>
        \o history
        \o <<[role |-> "user", content |-> current_text]>>

RoleIdle ==
    /\ _group_history = <<>> /\ _last_reply_time = 0 /\ clock = 0
    /\ handling = <<>> /\ said = <<>>

\* No reply yet (the time stamp defaults to 0.0), at a time of day far from 0.
InitRole ==
    /\ _group_history = <<>> /\ _last_reply_time = 0
    /\ clock = COOLDOWN \div TickSeconds
    /\ handling = <<>> /\ said = <<>>

\* Lines 121-146: a message of another user arrives; lucky is the draw
\* random.random() < REPLY_PROBABILITY.
Receive(at_me, lucky) ==
    /\ Len(handling) < MaxMessages
    /\ LET current == Len(handling) + 1
           history == deque_append(_group_history, [role |-> "user", content |-> current])
           goes_on == at_me \/ (time - _last_reply_time >= COOLDOWN /\ lucky)
       IN  /\ _group_history' = history
           /\ handling' = Append(handling,
                  [at_me |-> at_me, content |-> current,
                   messages |-> IF goes_on THEN _build_messages(history, current)
                                ELSE <<>>,
                   pc |-> IF goes_on THEN "llm" ELSE "done"])
    /\ UNCHANGED <<_last_reply_time, clock, said>>
    /\ UNCHANGED notRole

\* Lines 148-175: chat_completion returns, with a reply or without one.
Completion(i, answered) ==
    /\ i \in 1..Len(handling) /\ handling[i].pc = "llm"
    /\ handling' = [handling EXCEPT ![i].pc = "done"]
    /\ IF ~answered /\ ~handling[i].at_me
       THEN UNCHANGED <<_group_history, _last_reply_time, said>>
       ELSE /\ _group_history' = deque_append(_group_history,
                                     [role |-> "assistant", content |-> handling[i].content])
            /\ _last_reply_time' = time
            /\ said' = Append(said, [time |-> time, at_me |-> handling[i].at_me])
    /\ UNCHANGED clock
    /\ UNCHANGED notRole

\* time.time() moves on.
Elapse ==
    /\ clock < MaxTicks
    /\ clock' = clock + 1
    /\ UNCHANGED <<_group_history, _last_reply_time, handling, said>>
    /\ UNCHANGED notRole

(***************************************************************************)
(* emoji_reaction/__init__.py : the two matchers of the command            *)
(*                                                                         *)
(* One group message that starts with the command name.  The framework     *)
(* runs the matchers of an event by ascending priority; after a matcher    *)
(* with block=True has run, the matchers of lower rank (a larger priority  *)
(* number) are not run; a matcher with block=False lets the event go on,   *)
(* whether its handler returned or finished.  The argument is a sequence   *)
(* of characters.  The catalog file is not among the sources: two entries  *)
(* stand for it.                                                           *)
(***************************************************************************)
MAX_RANDOM_COUNT == 20
random_cmd == [priority |-> 9, block |-> FALSE]
stick_cmd  == [priority |-> 10, block |-> TRUE]

Digits   == {"0", "1", "2"}
Glyphs   == Digits \cup {"ge", "zan"}
Args     == UNION {[1..n -> Glyphs] : n \in 0..MaxArgLen}
NoMatch  == -1

EMOJI_LIST == <<[id |-> <<"1", "2">>, name |-> <<"zan">>],
                [id |-> <<"2", "1">>, name |-> <<"ge", "zan">>]>>

\* int() of a string of digits
RECURSIVE Decimal(_)
Decimal(ds) ==
    IF ds = <<>> THEN 0
    ELSE 10 * Decimal(SubSeq(ds, 1, Len(ds) - 1))
         + (CASE ds[Len(ds)] = "0" -> 0 [] ds[Len(ds)] = "1" -> 1 [] ds[Len(ds)] = "2" -> 2)

isdigit(arg) == arg # <<>> /\ \A i \in 1..Len(arg) : arg[i] \in Digits

\* _RANDOM_RE.match(text), then int(m.group(1)): ^(\d+)ge$, ge standing for the counter word of the command
_RANDOM_RE(arg) ==
    IF Len(arg) >= 2 /\ arg[Len(arg)] = "ge" /\ isdigit(SubSeq(arg, 1, Len(arg) - 1))
    THEN Decimal(SubSeq(arg, 1, Len(arg) - 1))
    ELSE NoMatch

\* _resolve_emoji: by id, then by name
_resolve_emoji(arg) ==
    \E k \in 1..Len(EMOJI_LIST) : arg = EMOJI_LIST[k].id \/ arg = EMOJI_LIST[k].name

\* The matcher to run after matcher m has run.
AfterMatcher(m) ==
    IF m.block THEN "end"
    ELSE IF m.priority < stick_cmd.priority THEN "stick" ELSE "end"

EmojiIdle ==
    /\ emoji_in = <<>> /\ emoji_pc = "idle" /\ tried = 0 /\ success = 0
    /\ emoji_sent = <<>>

\* The argument, whether a message is quoted, the outcome of each call of
\* set_msg_emoji_like.
InitEmoji ==
    /\ emoji_in \in [arg : Args, reply : BOOLEAN, api : [1..Len(EMOJI_LIST) -> BOOLEAN]]
    /\ emoji_pc = "random" /\ tried = 0 /\ success = 0
    /\ emoji_sent = <<>>

\* handle_random, lines 114-130: up to the first call
RandomStart ==
    /\ emoji_pc = "random"
    /\ LET count == _RANDOM_RE(emoji_in.arg)
           refusal == IF ~emoji_in.reply THEN "quote_a_message"
                      ELSE IF count < 1 THEN "at_least_1"
                      ELSE IF count > MAX_RANDOM_COUNT THEN "at_most"
                      ELSE "none"
       IN  IF count = NoMatch
           THEN emoji_pc' = AfterMatcher(random_cmd) /\ UNCHANGED emoji_sent
           ELSE IF refusal # "none"
           THEN /\ emoji_sent' = Append(emoji_sent, [by |-> "random", msg |-> refusal])
                /\ emoji_pc' = AfterMatcher(random_cmd)
           ELSE emoji_pc' = "calls" /\ UNCHANGED emoji_sent
    /\ UNCHANGED <<emoji_in, tried, success>>
    /\ UNCHANGED notEmoji

\* handle_random, lines 131-142: one call of the loop returns or raises
RandomCall ==
    /\ emoji_pc = "calls"
    /\ LET count  == _RANDOM_RE(emoji_in.arg)
           chosen == IF count < Len(EMOJI_LIST) THEN count ELSE Len(EMOJI_LIST)
       IN  /\ tried < chosen
           /\ tried' = tried + 1
           /\ success' = IF emoji_in.api[tried + 1] THEN success + 1 ELSE success
           /\ emoji_pc' = IF tried + 1 = chosen THEN "report" ELSE "calls"
    /\ UNCHANGED <<emoji_in, emoji_sent>>
    /\ UNCHANGED notEmoji

\* handle_random, lines 144-150: the report
RandomReport ==
    /\ emoji_pc = "report"
    /\ emoji_sent' = Append(emoji_sent,
                            [by |-> "random",
                             msg |-> IF success > 0 THEN "stuck_random" ELSE "failed"])
    /\ emoji_pc' = AfterMatcher(random_cmd)
    /\ UNCHANGED <<emoji_in, tried, success>>
    /\ UNCHANGED notEmoji

\* handle_stick, lines 155-204
Stick ==
    /\ emoji_pc = "stick"
    /\ LET arg == emoji_in.arg
           msg == IF ~emoji_in.reply THEN "quote_a_message"
                  ELSE IF arg = <<>> THEN "usage"
                  ELSE IF _resolve_emoji(arg) \/ isdigit(arg)
                  THEN (IF emoji_in.api[1] THEN "stuck" ELSE "failed")
                  ELSE "not_found"
       IN  emoji_sent' = Append(emoji_sent, [by |-> "stick", msg |-> msg])
    /\ emoji_pc' = AfterMatcher(stick_cmd)
    /\ UNCHANGED <<emoji_in, tried, success>>
    /\ UNCHANGED notEmoji

(***************************************************************************)
(* Specifications: one per operation, the others idle.                     *)
(***************************************************************************)
NextWrap == Wrap
NextSym  == ApplyOnce \/ ApplyTwice
NextAnim == AnimIterate \/ AnimCheck \/ AnimQuantize \/ AnimSave
NextCmd  == HandleParse \/ HandleDownload \/ HandleProcess
NextShot == ShotLayout \/ ShotAvatar \/ ShotDraw
NextFont == \E t \in Calls : FontTest(t) \/ FontCached(t) \/ FontScan(t) \/ FontStore(t)
NextMohe ==
    \/ \E chosen_hours \in ChosenHours : \E past \in BOOLEAN :
           Startup(chosen_hours, past) \/ DailyReschedule(chosen_hours, past)
    \/ \E i \in 0..1 : RunJob(i)
    \/ Tick
NextToggle ==
    \/ \E g \in Groups : \E name \in DisplayNames :
           ToggleDisable(g, name) \/ ToggleEnable(g, name)
    \/ \E e \in Events : \E p \in Plugins : ToggleCheck(p, e)
    \/ ToggleRestart
NextTen ==
    \/ \E u \in Users : TenStart(u)
    \/ \E i \in 1..MaxInvocations : TenSend(i) \/ TenNotify(i)
    \/ Midnight
NextStore ==
    \E h \in Handlers :
        \/ HandleAddMember(h) \/ HandleAddAlias(h) \/ HandleDisable(h)
        \/ HandleUploadStart(h) \/ HandleUploadExtract(h) \/ HandleUploadImage(h)

NextSeq ==
    \/ \E name \in Names : AddMember(name)
    \/ \E name \in Names, alias \in {"n2", "a1"} : AddAlias(name, alias)
    \/ \E name \in Names, urls \in Attachments : Upload(name, urls)
    \/ \E name \in Names, has_text \in BOOLEAN : ScreenshotUpload(name, has_text)
    \/ DeleteQuote

NextRole ==
    \/ \E at_me \in BOOLEAN, lucky \in BOOLEAN : Receive(at_me, lucky)
    \/ \E i \in 1..MaxMessages, answered \in BOOLEAN : Completion(i, answered)
    \/ Elapse
NextEmoji == RandomStart \/ RandomCall \/ RandomReport \/ Stick
NextWolf == WolframStart \/ WolframResponse \/ WolframLogin \/ WolframForward

BaseIdle == WrapIdle /\ SymIdle /\ AnimIdle /\ CmdIdle
MidIdle == ToggleIdle /\ MoheIdle
LastIdle == WolfIdle /\ RoleIdle /\ EmojiIdle
LaterIdle == MidIdle /\ LastIdle
EarlyIdle == BaseIdle /\ ShotIdle /\ FontIdle /\ StoreIdle /\ TenIdle
RestIdle == ShotIdle /\ FontIdle /\ StoreIdle /\ TenIdle /\ LaterIdle

WrapOnly == InitWrap /\ SymIdle /\ AnimIdle /\ CmdIdle /\ RestIdle
SymOnly  == WrapIdle /\ InitSym /\ AnimIdle /\ CmdIdle /\ RestIdle
AnimOnly == WrapIdle /\ SymIdle /\ InitAnim /\ CmdIdle /\ RestIdle
CmdOnly  == WrapIdle /\ SymIdle /\ AnimIdle /\ InitCmd /\ RestIdle
ShotOnly == BaseIdle /\ InitShot /\ FontIdle /\ StoreIdle /\ TenIdle /\ LaterIdle
FontOnly == BaseIdle /\ ShotIdle /\ InitFont /\ StoreIdle /\ TenIdle /\ LaterIdle
StoreOnly == BaseIdle /\ ShotIdle /\ FontIdle /\ InitStore /\ TenIdle /\ LaterIdle
TenOnly  == BaseIdle /\ ShotIdle /\ FontIdle /\ StoreIdle /\ InitTen /\ LaterIdle
ToggleOnly == EarlyIdle /\ InitToggle /\ MoheIdle /\ LastIdle
MoheOnly == EarlyIdle /\ ToggleIdle /\ InitMohe /\ LastIdle
WolfOnly == EarlyIdle /\ MidIdle /\ InitWolf /\ RoleIdle /\ EmojiIdle
RoleOnly == EarlyIdle /\ MidIdle /\ WolfIdle /\ InitRole /\ EmojiIdle
EmojiOnly == EarlyIdle /\ MidIdle /\ WolfIdle /\ RoleIdle /\ InitEmoji
SeqOnly == EarlyIdle /\ LaterIdle

SpecWrap == WrapOnly /\ [][NextWrap]_vars
SpecSym  == SymOnly /\ [][NextSym]_vars
SpecAnim == AnimOnly /\ [][NextAnim]_vars
SpecCmd  == CmdOnly /\ [][NextCmd]_vars
SpecShot == ShotOnly /\ [][NextShot]_vars
SpecFont == FontOnly /\ [][NextFont]_vars
SpecStore == StoreOnly /\ [][NextStore]_vars
SpecTen  == TenOnly /\ [][NextTen]_vars
SpecToggle == ToggleOnly /\ [][NextToggle]_vars
SpecMohe == MoheOnly /\ [][NextMohe]_vars
SpecSeq == SeqOnly /\ [][NextSeq]_vars
SpecWolf == WolfOnly /\ [][NextWolf]_vars
SpecRole == RoleOnly /\ [][NextRole]_vars
SpecEmoji == EmojiOnly /\ [][NextEmoji]_vars

\* Any one of the operations, from its initial state.
Init == WrapOnly \/ SymOnly \/ AnimOnly \/ CmdOnly \/ ShotOnly \/ FontOnly \/ StoreOnly
           \/ TenOnly \/ ToggleOnly \/ MoheOnly \/ SeqOnly
           \/ WolfOnly \/ RoleOnly \/ EmojiOnly
Next == NextWrap \/ NextSym \/ NextAnim \/ NextCmd \/ NextShot \/ NextFont \/ NextStore
           \/ NextTen \/ NextToggle \/ NextMohe \/ NextSeq
           \/ NextWolf \/ NextRole \/ NextEmoji
Spec == Init /\ [][Next]_vars

(***************************************************************************)
(* Properties of _wrap_text (checked under SpecWrap).                      *)
(***************************************************************************)
Width(ch)     == _char_width(ch, font, emoji_w)
Measure(ln)   == _measure_line(ln, font, emoji_w)
Limit         == Px(max_width)
TextChars     == {text[i] : i \in 1..Len(text)} \ {NL}
Returned      == wpc = "done"
IsZeroWidthCodepoint(ch) ==
    ch \in {_ZWJ, _VS15, _VS16} \/ (917536 <= ch /\ ch <= 917631)

RECURSIVE Flatten(_)
Flatten(ls) == IF ls = <<>> THEN <<>> ELSE Head(ls) \o Flatten(Tail(ls))

\* C1: when no character of the text is wider than max_width, every returned
\* line measures (_measure_line) at most max_width; in general a line exceeds
\* max_width only if it consists of one character whose own width exceeds it,
\* and a character wider than max_width is alone on its line.
C1_LinesWithinMaxWidth ==
    Returned =>
        /\ (\A ch \in TextChars : Width(ch) <= Limit)
              => \A i \in 1..Len(wrapped) : Measure(wrapped[i]) <= Limit
        /\ \A i \in 1..Len(wrapped) :
              /\ Measure(wrapped[i]) > Limit
                    => /\ Len(wrapped[i]) = 1
                       /\ Width(wrapped[i][1]) > Limit
              /\ (\E k \in 1..Len(wrapped[i]) : Width(wrapped[i][k]) > Limit)
                    => Len(wrapped[i]) = 1

\* A paragraph of several characters, none wider than max_width, was broken
\* into several lines.
C1_Witness ==
    /\ Returned
    /\ NL \notin {text[i] : i \in 1..Len(text)}
    /\ \A ch \in TextChars : Width(ch) <= Limit
    /\ Len(wrapped) >= 2
    /\ \E i \in 1..Len(wrapped) : Len(wrapped[i]) >= 2 /\ Measure(wrapped[i]) = Limit

\* C4: when every paragraph (piece between line feeds) fits within max_width,
\* the returned lines are exactly the paragraphs, in order, empty ones
\* included: as many lines as line feeds plus one.
C4_ParagraphsPreserved ==
    (Returned /\ \A j \in 1..Len(split(text)) : Measure(split(text)[j]) <= Limit)
        => /\ Len(wrapped) = Cardinality({i \in 1..Len(text) : text[i] = NL}) + 1
           /\ wrapped = split(text)

\* A text with an empty paragraph between two others, all fitting.
C4_Witness ==
    /\ Returned
    /\ Len(text) = 4 /\ text[2] = NL /\ text[3] = NL
    /\ text[1] # NL /\ text[4] # NL
    /\ Width(text[1]) <= Limit /\ Width(text[4]) <= Limit
    /\ wrapped = << <<text[1]>>, <<>>, <<text[4]>> >>

\* C5: _wrap_text returns at least one line for every input, and for the
\* empty string exactly one line, the empty string.
C5_NeverEmpty ==
    Returned =>
        /\ Len(wrapped) >= 1
        /\ text = <<>> => wrapped = << <<>> >>

\* The call on the empty string returned.
C5_Witness == Returned /\ text = <<>> /\ Len(wrapped) = 1

\* ls is a greedy first-fit division of the non-empty paragraph p.
GreedyLines(p, ls) ==
    /\ Flatten(ls) = p
    /\ \A i \in 1..Len(ls) : ls[i] # <<>>
    /\ \A i \in 1..(Len(ls) - 1) : Measure(ls[i]) + Width(ls[i + 1][1]) > Limit
    /\ \A i \in 1..Len(ls) : \A k \in 2..Len(ls[i]) :
           Measure(SubSeq(ls[i], 1, k - 1)) + Width(ls[i][k]) <= Limit

\* C6: within each paragraph wrapping is greedy first-fit: the lines of a
\* paragraph concatenate to the paragraph, a line ends exactly where the next
\* character would take the cumulative width above max_width (that character
\* starts the next line), and no line ends earlier.
C6_GreedyFirstFit ==
    Returned =>
        /\ wrapped = Flatten([j \in 1..Len(split(text)) |->
                                WrapParagraph(split(text)[j], font, max_width, emoji_w)])
        /\ \A j \in 1..Len(split(text)) :
              LET p == split(text)[j]
              IN  p # <<>> => GreedyLines(p, WrapParagraph(p, font, max_width, emoji_w))
        /\ Flatten(wrapped) = SelectSeq(text, LAMBDA ch : ch # NL)

\* A single paragraph broken twice, one line holding two characters.
C6_Witness ==
    /\ Returned
    /\ Len(text) = 4 /\ NL \notin {text[i] : i \in 1..Len(text)}
    /\ Len(wrapped) = 3
    /\ \E i \in 1..3 : Len(wrapped[i]) = 2

\* C7: the joiner, the variant selectors and the tag codepoints measure zero,
\* and no returned line starts or ends with one of them.
C7_NoZeroWidthAtLineEdge ==
    Returned =>
        /\ \A ch \in TextChars : IsZeroWidthCodepoint(ch) => Width(ch) = 0
        /\ \A i \in 1..Len(wrapped) :
              wrapped[i] # <<>> =>
                 /\ ~IsZeroWidthCodepoint(wrapped[i][1])
                 /\ ~IsZeroWidthCodepoint(wrapped[i][Len(wrapped[i])])

(***************************************************************************)
(* Properties of _apply_symmetric (checked under SpecSym).                 *)
(***************************************************************************)
Applied == spc \in {"once", "twice"}
IsMirrorSymmetric(im) == FLIP_LEFT_RIGHT(im) = im

\* C2: direction left on a W x H frame returns a frame of size
\* (2*(W div 2), H) whose columns [0, W div 2) are the source's columns and
\* whose column x in [W div 2, 2*(W div 2)) is source column 2*(W div 2)-1-x.
C2_LeftKeepsAndMirrors ==
    (Applied /\ direction = "left") =>
        LET half == img.w \div 2
        IN  /\ result.w = 2 * half
            /\ result.h = img.h
            /\ DOMAIN result.px = Coords(2 * half, img.h)
            /\ \A y \in 0..(img.h - 1) :
                  /\ \A x \in 0..(half - 1) :
                        result.px[<<x, y>>] = img.px[<<x, y>>]
                  /\ \A x \in half..(2 * half - 1) :
                        result.px[<<x, y>>] = img.px[<<2 * half - 1 - x, y>>]

\* Left was applied to a frame of odd width whose kept half has two
\* different columns and whose dropped column differs from both.
C2_Witness ==
    /\ spc = "once" /\ direction = "left"
    /\ img.w = 3 /\ img.h = 2
    /\ img.px[<<0, 0>>] # img.px[<<1, 0>>]
    /\ img.px[<<0, 1>>] # img.px[<<0, 0>>]
    /\ result.w = 2

\* C3: for each of the four directions and every size, the mirrored dimension
\* of the result is exactly 2*(dimension div 2) and the other is unchanged, so
\* kept and mirrored half have equal size (the result splits in two halves).
C3_EvenMirroredDimension ==
    (Applied /\ direction \in VALID_DIRECTIONS) =>
        /\ DOMAIN result.px = Coords(result.w, result.h)
        /\ direction \in {"left", "right"} =>
              /\ result.w = 2 * (img.w \div 2)
              /\ result.w % 2 = 0
              /\ result.h = img.h
        /\ direction \in {"up", "down"} =>
              /\ result.h = 2 * (img.h \div 2)
              /\ result.h % 2 = 0
              /\ result.w = img.w

\* Down was applied to a frame of odd width and height 1, whose half is zero.
C3_Witness ==
    /\ spc = "once" /\ direction = "down"
    /\ img.w = 3 /\ img.h = 1
    /\ result.w = 3 /\ result.h = 0

\* C8 as stated: a second left pass over the first pass's result gives an
\* image different from the first pass's result unless the original input is
\* itself symmetric.
C8_SecondPassDiffers ==
    (spc = "twice" /\ direction = "left") =>
        (result2 = result => IsMirrorSymmetric(img))

\* C8 amended: the left transform is idempotent; the second pass returns the
\* first pass's result for every input, symmetric or not.
C8_LeftIdempotent ==
    (spc = "twice" /\ direction = "left") => result2 = result

\* Left was applied twice to a frame that is not symmetric and whose kept half
\* is not uniform.
C8_Witness ==
    /\ spc = "twice" /\ direction = "left"
    /\ img.w = 4
    /\ ~IsMirrorSymmetric(img)
    /\ img.px[<<0, 0>>] # img.px[<<1, 0>>]
    /\ result # img

Unrecognized == [type |-> "text", body |-> "unrecognized_format"]
Opened == opens >= 1

\* C10: when the downloaded bytes are of no recognised image format, the
\* command ends with the decode error's reply (unrecognised format) and with
\* no other reply, whichever path an intact file would have taken; no image
\* is sent, the file is opened once only and the temporary file is removed.
C10_GarbageGetsDecodeError ==
    content.kind = "garbage" =>
        /\ opens <= 1
        /\ \A i \in 1..Len(replies) : replies[i].type # "image"
        /\ Opened => /\ hpc = "finished"
                     /\ replies = <<Unrecognized>>
                     /\ temp_file = FALSE

\* Garbage bytes that came from an animation were downloaded and opened.
C10_Witness ==
    /\ hpc = "finished" /\ Opened
    /\ content = [kind |-> "garbage", animated |-> TRUE]
    /\ replies = <<Unrecognized>>

(***************************************************************************)
(* Further properties of _apply_symmetric (checked under SpecSym).         *)
(***************************************************************************)
\* C12: a direction outside the four recognised ones returns an unmodified
\* copy of the frame: same size, every pixel equal to the source pixel.
C12_UnknownDirectionCopies ==
    (Applied /\ direction \notin VALID_DIRECTIONS) =>
        /\ result.w = img.w
        /\ result.h = img.h
        /\ DOMAIN result.px = Coords(img.w, img.h)
        /\ \A c \in Coords(img.w, img.h) : result.px[c] = img.px[c]

\* An unrecognised direction was applied to a frame of odd width with
\* different pixels in its first and last column.
C12_Witness ==
    /\ spc = "once" /\ direction \notin VALID_DIRECTIONS
    /\ img.w = 3 /\ img.h = 1
    /\ img.px[<<0, 0>>] # img.px[<<2, 0>>]
    /\ result = img

\* C13: right keeps the rightmost W div 2 columns and puts their mirror
\* first; up keeps the top H div 2 rows and puts their mirror below; down
\* keeps the bottom H div 2 rows and puts their mirror first.  Every output
\* pixel is the source pixel of the kept half or its reflection.
C13_RightUpDownLayout ==
    Applied =>
        LET hw == img.w \div 2
            hh == img.h \div 2
        IN  /\ direction = "right" =>
                 /\ DOMAIN result.px = Coords(2 * hw, img.h)
                 /\ \A y \in 0..(img.h - 1) :
                       /\ \A x \in 0..(hw - 1) :
                             result.px[<<x, y>>] = img.px[<<img.w - 1 - x, y>>]
                       /\ \A x \in hw..(2 * hw - 1) :
                             result.px[<<x, y>>] = img.px[<<img.w - 2 * hw + x, y>>]
            /\ direction = "up" =>
                 /\ DOMAIN result.px = Coords(img.w, 2 * hh)
                 /\ \A x \in 0..(img.w - 1) :
                       /\ \A y \in 0..(hh - 1) :
                             result.px[<<x, y>>] = img.px[<<x, y>>]
                       /\ \A y \in hh..(2 * hh - 1) :
                             result.px[<<x, y>>] = img.px[<<x, 2 * hh - 1 - y>>]
            /\ direction = "down" =>
                 /\ DOMAIN result.px = Coords(img.w, 2 * hh)
                 /\ \A x \in 0..(img.w - 1) :
                       /\ \A y \in 0..(hh - 1) :
                             result.px[<<x, y>>] = img.px[<<x, img.h - 1 - y>>]
                       /\ \A y \in hh..(2 * hh - 1) :
                             result.px[<<x, y>>] = img.px[<<x, img.h - 2 * hh + y>>]

\* Right was applied to a frame of odd width whose kept column differs from
\* the dropped ones.
C13_Witness ==
    /\ spc = "once" /\ direction = "right"
    /\ img.w = 3 /\ img.h = 2
    /\ img.px[<<2, 0>>] # img.px[<<0, 0>>]
    /\ img.px[<<2, 0>>] # img.px[<<2, 1>>]
    /\ result.px[<<0, 0>>] = img.px[<<2, 0>>]

(***************************************************************************)
(* Further properties of _process_animated (checked under SpecAnim).       *)
(***************************************************************************)
\* C14: in every frame written, a pixel carries the transparent index 255 if
\* and only if its alpha in the processed RGBA frame is at most 128; the
\* other pixels use the adaptive indices 0..254 only.
C14_TransparentIffAlphaAtMost128 ==
    \A i \in 1..Len(gif_frames) :
        /\ DOMAIN gif_frames[i].px = DOMAIN frames[i].px
        /\ \A q \in DOMAIN frames[i].px :
              /\ (gif_frames[i].px[q] = 255) <=> (frames[i].px[q][2] <= 128)
              /\ frames[i].px[q][2] > 128 => gif_frames[i].px[q] \in 0..254

\* A written frame holds a pixel of alpha exactly 128 and an opaque one.
C14_Witness ==
    /\ apc = "done"
    /\ \E i \in 1..Len(saved.frames) :
          \E q, r \in DOMAIN frames[i].px :
              /\ frames[i].px[q][2] = 128 /\ saved.frames[i].px[q] = 255
              /\ frames[i].px[r][2] = 255 /\ saved.frames[i].px[r] # 255

(***************************************************************************)
(* Further properties of _char_width (checked under SpecWrap).             *)
(***************************************************************************)
WrappedChars == UNION {{wrapped[i][k] : k \in 1..Len(wrapped[i])} : i \in 1..Len(wrapped)}

LaidOut == shpc \in {"avatar", "draw", "returned", "raised"}

\* The measured width of the whole message, in half pixels.
MessageWidth == _measure_line(message, text_font.adv, Px(_TEXT_FONT_SIZE))

\* C11 (as stated, with the truncation it mentions): for every message of
\* exactly one character the bubble width is at least 2 * _BUBBLE_PH plus the
\* measured width of that character cut to whole pixels.  It fails for the
\* message that is one line feed.
C11_OneCharBubbleCoversWidth ==
    (LaidOut /\ Len(message) = 1)
        => bub_w >= 2 * _BUBBLE_PH + int(MessageWidth)

\* C11 (amended): for a message of one character other than a line feed the
\* bubble width is exactly 2 * _BUBBLE_PH plus the measured width of the
\* character cut to whole pixels, so less than one pixel short of the
\* uncut sum; a message of one line feed is two empty lines and its bubble
\* is sized by the width of a space.
C11_OneCharBubbleWidth ==
    (LaidOut /\ Len(message) = 1)
        => IF message[1] # NL
           THEN /\ bub_w = 2 * _BUBBLE_PH + int(MessageWidth)
                /\ Px(bub_w) > Px(2 * _BUBBLE_PH) + MessageWidth - Px(1)
           ELSE /\ shot_lines = << <<>>, <<>> >>
                /\ bub_w = 2 * _BUBBLE_PH + int(text_font.adv[SP])

\* A one-character message with a fractional width has been laid out and
\* the image returned.
C11_Witness ==
    /\ shpc = "returned" /\ Len(message) = 1 /\ message[1] # NL
    /\ MessageWidth % 2 = 1
    /\ png.bubble.w = 2 * _BUBBLE_PH + 1

\* C15: the canvas height is the larger of top padding + nickname height +
\* 10 + bubble height + bottom padding and avatar size + top padding + bottom
\* padding, the bubble height being line height * n + line gap * (n - 1) +
\* 2 * vertical padding for the n >= 1 wrapped lines; the avatar pasted at
\* y = top padding lies inside the canvas.
C15_CanvasHeight ==
    LaidOut =>
        LET n    == Len(shot_lines)
            column == _TOP_PAD + nick_h + 10 + bub_h + _BOT_PAD
            floor  == _AVATAR_SIZE + _TOP_PAD + _BOT_PAD
        IN  /\ n >= 1
            /\ bub_h = text_font.metrics * n + _LINE_GAP * (n - 1) + 2 * _BUBBLE_PV
            /\ total_h = IF column >= floor THEN column ELSE floor
            /\ _TOP_PAD + _AVATAR_SIZE <= total_h
            /\ shpc = "returned" =>
                   /\ png.h = total_h
                   /\ png.avatar.y + png.avatar.size <= png.h
                   /\ png.avatar.x + png.avatar.size <= png.w

\* An image was returned whose height is the avatar floor: the text column
\* alone would have been lower than the avatar.
C15_Witness ==
    /\ shpc = "returned"
    /\ _TOP_PAD + nick_h + gap_nb + bub_h + _BOT_PAD < png.h
    /\ png.h = _AVATAR_SIZE + _TOP_PAD + _BOT_PAD

\* C16: generate_chat_screenshot never fails because of its avatar: for
\* avatar bytes that are empty, unrecognisable, or recognised at open time but
\* failing to decode, it uses the gray placeholder and returns an image.
C16_AvatarNeverFails ==
    /\ shpc # "raised"
    /\ (shpc = "returned" /\ avatar_bytes # "valid")
           => png.avatar.kind = "placeholder"

(***************************************************************************)
(* Properties of concurrent rendering calls (checked under SpecFont).      *)
(***************************************************************************)
\* What a call resolves when it runs alone: the first search path that
\* exists, None when there is none.
ResolvedAlone(p) ==
    \/ p \in font_exists /\ \A q \in font_exists : p <= q
    \/ p = None /\ font_exists = {}

SameAsAlone ==
    \A t \in Calls : \A i \in 1..Len(got[t]) : ResolvedAlone(got[t][i])

\* C18 (as stated): the calls share no mutable state: no call reads a
\* variable another call wrote, and each call's result is the same as when
\* it runs alone.  It fails: a call returns the path another call stored in
\* _font_path_cache.
C18_NoSharedMutableState ==
    /\ \A t \in Calls : fpc[t] = "cached" => cache_writer = t
    /\ SameAsAlone

\* C18 (amended): the calls share one mutable variable, _font_path_cache,
\* which a call may read after another call wrote it; every store writes the
\* value a call running alone resolves, so each call resolves the same font
\* path as when it runs alone.
C18_SharedCacheSameResult ==
    /\ _font_path_cache # Ellipsis => ResolvedAlone(_font_path_cache)
    /\ \A t \in Calls : fpc[t] = "store" => ResolvedAlone(found[t])
    /\ SameAsAlone

\* A call is about to return the path that another call, still running,
\* stored in the global.
C18_Witness ==
    \E t \in Calls : \E u \in Calls \ {t} :
        /\ fpc[t] = "cached" /\ cache_writer = u
        /\ Len(got[u]) = 1 /\ got[u][1] \in _FONT_SEARCH_PATHS

(***************************************************************************)
(* Properties of the handlers writing the stores (checked under SpecStore).*)
(***************************************************************************)
\* Every update a handler made is in the store it was made to: the member
\* it added or registered, the alias it added, the index entries whose ids
\* it collected, the feature it disabled.
Reflected(s) ==
    \A h \in Handlers :
        LET c == s.cmds[h]
            l == s.hs[h]
        IN  /\ (c.kind = "add_member" /\ l.reply = "added")
                   => c.name \in Range(s.members)
            /\ (c.kind = "add_alias" /\ l.reply = "added")
                   => /\ c.alias \in DOMAIN s.aliases
                      /\ s.aliases[c.alias] = l.canonical
            /\ l.auto_registered => c.name \in Range(s.members)
            /\ \A j \in 1..Len(l.saved_ids) :
                   \E e \in s.index : /\ e.id = l.saved_ids[j]
                                      /\ e.member = l.canonical
                                      /\ e.file \div 10 = h
            /\ (c.kind = "disable" /\ l.reply = "disabled")
                   => /\ c.module \in s.config_file.disabled
                      /\ c.module \in s._config_cache.disabled

AllFinished(s) == \A h \in Handlers : s.hs[h].pc = "finished"

\* Some state reached from the states of layer, by resuming handlers in any
\* order, has both handlers finished and an update missing.
RECURSIVE LostUpdateAfter(_)
LostUpdateAfter(layer) ==
    IF layer = {} THEN FALSE
    ELSE \/ \E s \in layer : AllFinished(s) /\ ~Reflected(s)
         \/ LostUpdateAfter({ Resume(x[1], x[2]) :
                x \in {y \in layer \X Handlers : y[1].hs[y[2]].pc # "finished"} })

\* C19 (as stated): the stores are vulnerable to lost updates: there is an
\* interleaving of two concurrently running handlers writing the same store,
\* switching at their await points, after which the store reflects only one
\* of the two updates.  Neither from a start state nor from the state the
\* handlers are in does any interleaving have that outcome.
C19_LostUpdateReachable == LostUpdateAfter(Starts \cup {Now})

\* C19 (amended): the stores are updated by unlocked load-modify-save, but
\* no handler awaits between its load and its save, so under every
\* interleaving of two handlers that switches at await points each update
\* made stays in its store: both updates are reflected.
C19_NoLostUpdate == Reflected(Now)

\* Two uploads overlap: the first has saved one image and awaits its next
\* download, the second has saved an image after that and finished.
C19_Witness ==
    /\ cmds[1].kind = "upload" /\ cmds[2].kind = "upload"
    /\ hs[1].pc = "download" /\ Len(hs[1].saved_ids) = 1
    /\ hs[2].pc = "finished" /\ hs[2].saved_ids # <<>>
    /\ hs[1].saved_ids[1] < hs[2].saved_ids[1]
    /\ hs[1].canonical = hs[2].canonical

(***************************************************************************)
(* Properties of the ten-draw (checked under SpecTen).                     *)
(***************************************************************************)
\* Invocation i is the first of its user on its day.
FirstOfDay(i) ==
    \A j \in 1..(i - 1) : invs[j].user # invs[i].user \/ invs[j].day # invs[i].day

\* C20: of the ten-draw invocations of one user on one date, under any
\* sequence or interleaving, exactly the first draws ten cards and every later
\* one is refused without drawing; invocations of other users and on later
\* dates are not affected.
C20_OncePerUserPerDay ==
    \A i \in 1..Len(invs) :
        IF FirstOfDay(i)
        THEN /\ invs[i].cards = 10
             /\ invs[i].reply \in {"none", "result", "error"}
             /\ invs[i].pc = "done" /\ invs[i].reply # "error"
                    => invs[i].reply = "result"
        ELSE invs[i].cards = 0 /\ invs[i].reply = "refused"

\* A user drew, was refused while the send of the first draw was still
\* pending, another user drew on the same day, and the first user drew again
\* on the next day.
C20_Witness ==
    /\ Len(invs) = 4
    /\ invs[1].user = "u1" /\ invs[1].day = 1 /\ invs[1].pc = "send"
    /\ invs[2].user = "u1" /\ invs[2].day = 1 /\ invs[2].reply = "refused"
    /\ invs[3].user = "u2" /\ invs[3].day = 1 /\ invs[3].cards = 10
    /\ invs[4].user = "u1" /\ invs[4].day = 2 /\ invs[4].cards = 10

(***************************************************************************)
(* Properties of the feature switch (checked under SpecToggle).            *)
(***************************************************************************)
\* C21: a matcher is suppressed exactly when the event is a group message,
\* its plugin is registered and is not the toggle plugin, and the last
\* successful switch command for that plugin in that group was a disable;
\* the plugin in other groups, other plugins and the toggle plugin are not
\* suppressed by it.
C21_SuppressedIffDisabled ==
    \A e \in Events : \A p \in Plugins :
        toggle_check(_load_config(ToggleConfig), p, e)
            <=> /\ e.kind = "group"
                /\ _get_plugin_key(p) \in {"tarot", "quotes"}
                /\ toggle_last[<<e.group_id, _get_plugin_key(p)>>] = "disabled"

\* After a disable of tarot in g1, with an earlier disable and enable of
\* quotes there and a restart since, a tarot matcher on a message of g1 was
\* ignored, and tarot is enabled in g2.
C21_Witness ==
    /\ toggle_seen # <<>>
    /\ toggle_seen.ignored /\ toggle_seen.group = "g1"
    /\ toggle_seen.plugin = <<"yiyin", "tarot">>
    /\ toggle_last[<<"g1", "quotes">>] = "enabled"
    /\ toggle_last[<<"g2", "tarot">>] = "none"
    /\ ~toggle_cache.loaded

(***************************************************************************)
(* Properties of the automatic trigger (checked under SpecMohe).           *)
(***************************************************************************)
\* C22: under any sequence of process startups and daily reschedules, at
\* most two _auto_mohe runs happen on one calendar day.
C22_AtMostTwoRunsPerDay == \A d \in DOMAIN auto_runs : auto_runs[d] <= 2


(***************************************************************************)
(* C23  After any sequence of image uploads, screenshot uploads and        *)
(* deletions, starting from empty storage, every stored image file has     *)
(* exactly one entry in the index and every entry of the index refers to   *)
(* a stored file.                                                          *)
(***************************************************************************)
EntriesOf(f) == {e \in index : <<e.member, e.file>> = f}

C23_IndexMatchesFiles ==
    /\ \A f \in files : Cardinality(EntriesOf(f)) = 1
    /\ \A e \in index : <<e.member, e.file>> \in files

(***************************************************************************)
(* C28  After any sequence of add-member, add-alias, image-upload and      *)
(* screenshot-upload commands, starting from empty stores, the member list *)
(* has no duplicate, no alias is a member's primary name, and every alias  *)
(* maps to a member.                                                       *)
(***************************************************************************)
C28_NameStoresConsistent ==
    /\ \A i, j \in 1..Len(members) : members[i] = members[j] => i = j
    /\ \A a \in DOMAIN aliases : a \notin Range(members)
    /\ \A a \in DOMAIN aliases : aliases[a] \in Range(members)

\* An upload under an alias went to the member and registered nobody.
C28_Witness ==
    /\ Issued > 0
    /\ cmds[Issued].kind \in {"upload", "screenshot"}
    /\ cmds[Issued].name \in DOMAIN aliases
    /\ hs[Issued].reply = "saved"
    /\ ~hs[Issued].auto_registered
    /\ members = <<aliases[cmds[Issued].name]>>


(***************************************************************************)
(* C24  Every invocation of the math-solving command sends exactly one     *)
(* reply: a finish inside the try block is not followed by a second        *)
(* message from the generic exception handler.                             *)
(***************************************************************************)
C24_ExactlyOneReply == wolfram_pc = "done" => Len(wolfram_sent) = 1


(***************************************************************************)
(* C25  No random reply (one not triggered by an @) is sent less than      *)
(* COOLDOWN seconds after the previous reply in the group, whatever the    *)
(* interleaving of the messages handled.                                   *)
(***************************************************************************)
C25_RandomRepliesCooledDown ==
    \A k \in 2..Len(said) :
        ~said[k].at_me => said[k].time - said[k - 1].time >= COOLDOWN

(***************************************************************************)
(* C27  The message list sent to the LLM has the system prompt first, then *)
(* the history, and the triggering message exactly once.                   *)
(***************************************************************************)
Occurrences(messages, current) ==
    Cardinality({k \in 1..Len(messages) :
                    messages[k] = [role |-> "user", content |-> current]})

C27_TriggerExactlyOnce ==
    \A i \in 1..Len(handling) :
        handling[i].messages # <<>> =>
            /\ handling[i].messages[1] = [role |-> "system", content |-> SYSTEM_PROMPT]
            /\ Occurrences(handling[i].messages, handling[i].content) = 1


(***************************************************************************)
(* C26  A command whose argument has the form <N><counter word> is answered by the       *)
(* random handler alone; any other argument is answered by the fixed-emoji *)
(* handler alone.                                                          *)
(***************************************************************************)
RepliedBy == {emoji_sent[k].by : k \in 1..Len(emoji_sent)}

C26_ExactlyOneHandler ==
    emoji_pc = "end" =>
        IF _RANDOM_RE(emoji_in.arg) # NoMatch
        THEN RepliedBy = {"random"}
        ELSE RepliedBy = {"stick"}

====
